---- MODULE Spec2Model ----
(***************************************************************************)
(* Model of the Redis client of tideland/go-db: the connection pool        *)
(* (pool.go), Connection (connection.go), Pipeline (pipeline.go), the      *)
(* Database handle (redis.go) and the reply decoder of the protocol        *)
(* session (resp.go).                                                      *)
(*                                                                         *)
(* A session (a resp pointer) is a number 1..MaxSessions, the nil pointer is NIL.   *)
(* The bytes a session has received and not yet read are wire[s], a        *)
(* sequence of reply lines.  The pool operations run under pool.mu and are *)
(* therefore atomic steps; Database.Connection holds db.mu from its first  *)
(* poll of pull to the end of the handshake.                               *)
(***************************************************************************)
EXTENDS Integers, Sequences, FiniteSets, TLC

\* ------------------------------------------------------------------ bounds
NThreads == 2
MaxSessions == 3
MaxPool == 2
MaxCmds == 2
MaxNodes == 4
MaxPart == 1
MaxSteps == 2
MaxInits == 2
MaxArgs == 2
MaxLen == 2
MaxLine == 4
MaxFollow == 2

Threads == 1 .. NThreads
Sessions == 1 .. MaxSessions
NIL == 0

VARIABLES
  poolsize,    \* Database.poolsize
  password,    \* Database.password is not the empty string
  timeout,     \* Database.timeout, in seconds
  index,       \* Database.index
  network,     \* Database.network
  options,     \* the options Open has yet to apply
  opened,      \* where Open is: "opening", "open" (a Database was returned) or "failed"
  mu,          \* holder of pool.mu while a pool operation runs statement by statement
  call,        \* per thread: the pool operation it is in, and where
  active,      \* pool.active
  available,   \* pool.available (the keys of the map; NIL is a possible key)
  inUse,       \* pool.inUse
  dbmu,        \* holder of Database.mu, NIL when free
  nextId,      \* number of sessions newResp has created so far, plus one
  closed,      \* sessions whose connection was closed by resp.close
  wire,        \* per session: reply lines received and not yet read
  pc,          \* per thread: where the client is
  connResp,    \* per thread: Connection.resp of the thread's Connection
  pplResp,     \* per thread: Pipeline.resp of the thread's Pipeline
  counter,     \* per thread: Pipeline.counter
  pending,     \* per thread: the replies the server gave to the pipeline's counted commands
  forced,      \* sessions created by pullForced
  broken,      \* sessions on which a fatal condition occurred
  shaken,      \* sessions that completed the handshake since they were last obtained
  panicked,    \* a nil dereference crashed the process
  lastOp,      \* the operation that made the last step, with what it returned
  reply,       \* decoder check: the server reply handed to the decoder
  decoded,     \* decoder check: what receiveResultSet made of it
  unread,      \* receiveResultSet, turn by turn: the lines not yet read
  sets,        \* receiveResultSet, turn by turn: the result containers made so far
  cursor,      \* receiveResultSet, turn by turn: current (0 once it has returned)
  declared,    \* receiveResultSet, turn by turn: the containers an array header gave a length
  args,        \* sendCommand: the arguments it is called with
  packet,      \* sendCommand: the packet it writes, line by line
  rawLine,     \* receiveResponse, byte by byte: the line ReadBytes returned
  follow,      \* receiveResponse, byte by byte: the bytes the reader holds behind that line
  parsed,      \* receiveResponse, byte by byte: the response it returned
  dbExists,    \* CouchDB: the configured database exists
  versionDoc,  \* CouchDB: the database holds the document "database-version"
  stored,      \* CouchDB: the version that document holds
  applied,     \* CouchDB: the versions of the steps whose action was performed, in order
  everStored,  \* CouchDB: the versions a step has stored so far
  steps,       \* Manager.Init: the steps it was called with, by their versions
  todo,        \* Manager.Init: the steps Steps.execute has yet to execute
  start,       \* Manager.Init: the stored version when it began executing the steps
  mpc,         \* Manager.Init: "idle", "steps", "done" or "failed"
  inits        \* Manager.Init: the number of calls so far

vars == <<poolsize, password, timeout, index, network, options, opened, mu, call, active, available, inUse, dbmu, nextId, closed, wire, pc,
          connResp, pplResp, counter, pending, forced, broken, shaken, panicked,
          lastOp, reply, decoded, unread, sets, cursor, declared, args, packet,
          rawLine, follow, parsed, dbExists, versionDoc, stored, applied, everStored,
          steps, todo, start, mpc, inits>>

poolVars == <<active, available, inUse, nextId, closed, forced>>
codecVars == <<reply, decoded>>
config == <<poolsize, password, timeout, index, network, options, opened>>
lockVars == <<mu, call>>
loopVars == <<unread, sets, cursor, declared>>
sendVars == <<args, packet>>
lineVars == <<rawLine, follow, parsed>>
managerVars == <<dbExists, versionDoc, stored, applied, everStored, steps, todo, start,
                 mpc, inits>>
\* What the Redis client never touches.
elsewhere == <<managerVars, loopVars, sendVars, lineVars>>
\* The same, with the record of the handshakes.
aside == <<elsewhere, shaken>>
\* What the CouchDB manager never touches.
clientState == <<shaken, config, lockVars, poolVars, dbmu, wire, pc, connResp, pplResp, counter,
                 pending, broken, panicked, lastOp, codecVars, loopVars>>
redisVars == <<clientState, sendVars, lineVars>>

\* ------------------------------------------------------- server replies
\* A reply of the server, as a tree: a scalar of one of five kinds or an array.
Scalar(k, c) == [k |-> k, c |-> c, items |-> <<>>]
Arr(items) == [k |-> "array", c |-> "", items |-> items]

Leaves == { Scalar("status", "OK"), Scalar("error", "ERR"), Scalar("int", "1"),
            Scalar("bulk", "a"), Scalar("null", "") }

\* One line of the wire: the type byte b, the number n a bulk or array header
\* carries (0 on the other lines) and the text c: the content of the line or,
\* for a bulk, the payload that follows it.
Line(b, n, c) == [b |-> b, n |-> n, c |-> c]

RECURSIVE Enc(_)
RECURSIVE EncAll(_)
\* The wire form of a reply (the grammar receiveResponse reads).
Enc(r) ==
  CASE r.k = "status" -> << Line("+", 0, r.c) >>
    [] r.k = "error"  -> << Line("-", 0, r.c) >>
    [] r.k = "int"    -> << Line(":", 0, r.c) >>
    [] r.k = "bulk"   -> << Line("$", Len(r.c), r.c) >>
    [] r.k = "null"   -> << Line("$", -1, "") >>
    [] r.k = "array"  -> << Line("*", Len(r.items), "") >> \o EncAll(r.items)

EncAll(rs) == IF rs = <<>> THEN <<>> ELSE Enc(Head(rs)) \o EncAll(Tail(rs))

\* The timeout marker of a blocking command, and a line no reply starts with.
TimeoutLine == Line("*", -1, "")
InvalidLine == Line("?", 0, "")

\* ------------------------------------------------------------- the decoder
Response(kind, length, data, err) ==
  [kind |-> kind, length |-> length, data |-> data, err |-> err]

\* receiveResponse as it would be without its check for the timeout marker.
receiveResponse_noTimeout(stream) ==
  IF stream = <<>>
    THEN [resp |-> Response("receivingError", 0, <<>>, "io"), rest |-> stream]
    ELSE LET line == Head(stream)
             rest == Tail(stream)
         IN CASE line.b = "+" ->
                   [resp |-> Response("statusResponse", 0, <<line.b, line.c>>, "none"), rest |-> rest]
              [] line.b = "-" ->
                   [resp |-> Response("errorResponse", 0, <<line.b, line.c>>, "none"), rest |-> rest]
              [] line.b = ":" ->
                   [resp |-> Response("integerResponse", 0, <<line.c>>, "none"), rest |-> rest]
              [] line.b = "$" ->
                   IF line.n = -1
                     THEN [resp |-> Response("nullBulkResponse", 0, <<>>, "none"), rest |-> rest]
                     ELSE [resp |-> Response("bulkResponse", 0, <<line.c>>, "none"), rest |-> rest]
              [] line.b = "*" ->
                   [resp |-> Response("arrayResponse", line.n, <<>>, "none"), rest |-> rest]
              [] OTHER ->
                   [resp |-> Response("receivingError", 0, <<>>, "invalid"), rest |-> rest]

\* receiveResponse: one reply unit read from the stream.  The data of a status
\* or error line keeps the type byte, that of an integer is the content only.
receiveResponse(stream) ==
  IF stream = <<>>
    THEN [resp |-> Response("receivingError", 0, <<>>, "io"), rest |-> stream]
    ELSE LET line == Head(stream)
             rest == Tail(stream)
         IN CASE line.b = "+" ->
                   [resp |-> Response("statusResponse", 0, <<line.b, line.c>>, "none"), rest |-> rest]
              [] line.b = "-" ->
                   [resp |-> Response("errorResponse", 0, <<line.b, line.c>>, "none"), rest |-> rest]
              [] line.b = ":" ->
                   [resp |-> Response("integerResponse", 0, <<line.c>>, "none"), rest |-> rest]
              [] line.b = "$" ->
                   IF line.n = -1
                     THEN [resp |-> Response("nullBulkResponse", 0, <<>>, "none"), rest |-> rest]
                     ELSE [resp |-> Response("bulkResponse", 0, <<line.c>>, "none"), rest |-> rest]
              [] line.b = "*" ->
                   IF line.n = -1
                     THEN [resp |-> Response("timeoutError", 0, <<>>, "none"), rest |-> rest]
                     ELSE [resp |-> Response("arrayResponse", line.n, <<>>, "none"), rest |-> rest]
              [] OTHER ->
                   [resp |-> Response("receivingError", 0, <<>>, "invalid"), rest |-> rest]

\* A result container of the arena: its parent (0 for none), its items and
\* its declared length.  An item is a value or the index of a child container.
newResultSet == [parent |-> 0, items |-> <<>>, length |-> 1]
ValueItem(v) == [set |-> FALSE, v |-> v, child |-> 0]
ChildItem(i) == [set |-> TRUE, v |-> <<>>, child |-> i]

rsLen(rs) == Len(rs.items)
allReceived(rs) == Len(rs.items) >= rs.length
rsAppend(arena, i, item) == [arena EXCEPT ![i].items = Append(@, item)]

RECURSIVE nextResultSet(_, _)
nextResultSet(arena, i) ==
  IF allReceived(arena[i])
    THEN IF arena[i].parent = 0 THEN 0 ELSE nextResultSet(arena, arena[i].parent)
    ELSE i

\* A decoded container as a tree.
RECURSIVE Tree(_, _)
Tree(arena, i) ==
  [set |-> TRUE, v |-> <<>>,
   items |-> [j \in 1 .. Len(arena[i].items) |->
                IF arena[i].items[j].set
                  THEN Tree(arena, arena[i].items[j].child)
                  ELSE [set |-> FALSE, v |-> arena[i].items[j].v, items |-> <<>>]]]

NoResult == [set |-> FALSE, v |-> <<>>, items |-> <<>>]
Received(err, result, rest) == [err |-> err, result |-> result, rest |-> rest]

\* The array case of receiveResultSet: what an array header does to the arena
\* and the cursor.
arrayCase(arena, current, length) ==
  IF current = 1 /\ rsLen(arena[current]) = 0
    THEN [arena |-> [arena EXCEPT ![current].length = length], current |-> current]
    ELSE IF ~allReceived(arena[current])
      THEN LET next == Len(arena) + 1
               a1 == Append(arena, [newResultSet EXCEPT !.parent = current])
               a2 == rsAppend(a1, current, ChildItem(next))
           IN [arena |-> [a2 EXCEPT ![next].length = length], current |-> next]
      ELSE [arena |-> arena, current |-> current]

RECURSIVE receiveLoop_errorFails(_, _, _)
\* The loop as it would be if an error reply of the server ended it with a
\* failure.
receiveLoop_errorFails(stream, arena, current) ==
  LET rr == receiveResponse(stream)
      response == rr.resp
      after == CASE response.kind \in {"statusResponse", "integerResponse",
                                       "bulkResponse", "nullBulkResponse"} ->
                      [arena |-> rsAppend(arena, current, ValueItem(response.data)),
                       current |-> current]
                 [] response.kind = "arrayResponse" ->
                      arrayCase(arena, current, response.length)
                 [] OTHER -> [arena |-> arena, current |-> current]
      nxt == nextResultSet(after.arena, after.current)
  IN CASE response.kind = "receivingError" -> Received(response.err, NoResult, rr.rest)
       [] response.kind = "timeoutError" -> Received("timeout", NoResult, rr.rest)
       [] response.kind = "errorResponse" -> Received("server", NoResult, rr.rest)
       [] OTHER -> IF nxt = 0
                     THEN Received("none", Tree(after.arena, 1), rr.rest)
                     ELSE receiveLoop_errorFails(rr.rest, after.arena, nxt)

RECURSIVE receiveLoop(_, _, _)
receiveLoop(stream, arena, current) ==
  LET rr == receiveResponse(stream)
      response == rr.resp
      after == CASE response.kind \in {"statusResponse", "errorResponse", "integerResponse",
                                       "bulkResponse", "nullBulkResponse"} ->
                      [arena |-> rsAppend(arena, current, ValueItem(response.data)),
                       current |-> current]
                 [] response.kind = "arrayResponse" ->
                      arrayCase(arena, current, response.length)
                 [] OTHER -> [arena |-> arena, current |-> current]
      nxt == nextResultSet(after.arena, after.current)
  IN CASE response.kind = "receivingError" -> Received(response.err, NoResult, rr.rest)
       [] response.kind = "timeoutError" -> Received("timeout", NoResult, rr.rest)
       [] OTHER -> IF nxt = 0
                     THEN Received("none", Tree(after.arena, 1), rr.rest)
                     ELSE receiveLoop(rr.rest, after.arena, nxt)

\* receiveResultSet: all reply units of one command, as one result container.
receiveResultSet(stream) == receiveLoop(stream, << newResultSet >>, 1)

\* The result container that holds a reply: one entry per element, one
\* nested container per array element, in wire order.
valueOf(r) ==
  CASE r.k = "status" -> <<"+", r.c>>
    [] r.k = "error"  -> <<"-", r.c>>
    [] r.k = "int"    -> <<r.c>>
    [] r.k = "bulk"   -> <<r.c>>
    [] r.k = "null"   -> <<>>

RECURSIVE Nested(_)
Nested(r) ==
  IF r.k = "array"
    THEN [set |-> TRUE, v |-> <<>>, items |-> [j \in 1 .. Len(r.items) |-> Nested(r.items[j])]]
    ELSE [set |-> FALSE, v |-> valueOf(r), items |-> <<>>]

Expected(r) ==
  IF r.k = "array" THEN Nested(r)
  ELSE [set |-> TRUE, v |-> <<>>, items |-> << Nested(r) >>]

\* Value.IsOK
IsOK(v) == v = <<"+", "OK">>

\* ---------------------------------------------------------------- the pool
PoolRes(r, err, av, iu, nid) ==
  [r |-> r, err |-> err, available |-> av, inUse |-> iu, nextId |-> nid]

\* newResp: dials the server; dial says whether the dial succeeds.
newResp(dial) == IF dial THEN [r |-> nextId, err |-> "none"] ELSE [r |-> NIL, err |-> "dial"]

\* pull as it would be if the limit were tested with <= in place of <.
pull_limitOffByOne(pick, dial) ==
  IF ~active
    THEN PoolRes(NIL, "closed", available, inUse, nextId)
    ELSE IF Cardinality(available) > 0
      THEN PoolRes(pick, "none", available \ {pick}, inUse \cup {pick}, nextId)
      ELSE IF Cardinality(inUse) <= poolsize
        THEN IF newResp(dial).err # "none"
               THEN PoolRes(NIL, newResp(dial).err, available, inUse, nextId)
               ELSE PoolRes(newResp(dial).r, "none", available,
                            inUse \cup {newResp(dial).r}, nextId + 1)
        ELSE PoolRes(NIL, "limit", available, inUse, nextId)

\* pull as it would be if the lent session were left in available.
pull_keepsAvailable(pick, dial) ==
  IF ~active
    THEN PoolRes(NIL, "closed", available, inUse, nextId)
    ELSE IF Cardinality(available) > 0
      THEN PoolRes(pick, "none", available, inUse \cup {pick}, nextId)
      ELSE IF Cardinality(inUse) < poolsize
        THEN IF newResp(dial).err # "none"
               THEN PoolRes(NIL, newResp(dial).err, available, inUse, nextId)
               ELSE PoolRes(newResp(dial).r, "none", available,
                            inUse \cup {newResp(dial).r}, nextId + 1)
        ELSE PoolRes(NIL, "limit", available, inUse, nextId)

\* pull as it would be if the limit were reached one session early.
pull_limitTooEarly(pick, dial) ==
  IF ~active
    THEN PoolRes(NIL, "closed", available, inUse, nextId)
    ELSE IF Cardinality(available) > 0
      THEN PoolRes(pick, "none", available \ {pick}, inUse \cup {pick}, nextId)
      ELSE IF Cardinality(inUse) < poolsize - 1
        THEN IF newResp(dial).err # "none"
               THEN PoolRes(NIL, newResp(dial).err, available, inUse, nextId)
               ELSE PoolRes(newResp(dial).r, "none", available,
                            inUse \cup {newResp(dial).r}, nextId + 1)
        ELSE PoolRes(NIL, "limit", available, inUse, nextId)

\* pull as it would be if it dialled before it looked at available.
pull_dialsFirst(pick, dial) ==
  IF ~active
    THEN PoolRes(NIL, "closed", available, inUse, nextId)
    ELSE IF Cardinality(inUse) < poolsize
      THEN IF newResp(dial).err # "none"
             THEN PoolRes(NIL, newResp(dial).err, available, inUse, nextId)
             ELSE PoolRes(newResp(dial).r, "none", available,
                          inUse \cup {newResp(dial).r}, nextId + 1)
      ELSE IF Cardinality(available) > 0
        THEN PoolRes(pick, "none", available \ {pick}, inUse \cup {pick}, nextId)
        ELSE PoolRes(NIL, "limit", available, inUse, nextId)

\* pool.pull.  pick is the key the range over available yields first.
pull(pick, dial) ==
  IF ~active
    THEN PoolRes(NIL, "closed", available, inUse, nextId)
    ELSE IF Cardinality(available) > 0
      THEN PoolRes(pick, "none", available \ {pick}, inUse \cup {pick}, nextId)
      ELSE IF Cardinality(inUse) < poolsize
        THEN IF newResp(dial).err # "none"
               THEN PoolRes(NIL, newResp(dial).err, available, inUse, nextId)
               ELSE PoolRes(newResp(dial).r, "none", available,
                            inUse \cup {newResp(dial).r}, nextId + 1)
        ELSE PoolRes(NIL, "limit", available, inUse, nextId)

\* pullForced as it would be if it recorded the session before it dialled.
pullForced_recordsFirst(dial) ==
  IF ~active
    THEN PoolRes(NIL, "closed", available, inUse, nextId)
    ELSE IF newResp(dial).err # "none"
      THEN PoolRes(NIL, newResp(dial).err, available, inUse \cup {nextId}, nextId)
      ELSE PoolRes(newResp(dial).r, "none", available,
                   inUse \cup {newResp(dial).r}, nextId + 1)

\* pool.pullForced
pullForced(dial) ==
  IF ~active
    THEN PoolRes(NIL, "closed", available, inUse, nextId)
    ELSE IF newResp(dial).err # "none"
      THEN PoolRes(NIL, newResp(dial).err, available, inUse, nextId)
      ELSE PoolRes(newResp(dial).r, "none", available,
                   inUse \cup {newResp(dial).r}, nextId + 1)

\* The keys pull may be handed, and the dial outcomes: a dial happens only
\* while fewer than MaxSessions sessions were created.
Picks == IF available = {} THEN {NIL} ELSE available
Creates(res) == res.nextId # nextId
Dials == BOOLEAN
PullDials == IF active /\ available = {} /\ Cardinality(inUse) < poolsize THEN Dials ELSE {TRUE}
ForcedDials(r) == IF active /\ r = NIL THEN Dials ELSE {TRUE}


PushRes(av, iu, cl, panic) ==
  [available |-> av, inUse |-> iu, closed |-> cl, panic |-> panic]

\* push as it would be if it retained sessions after the pool was closed.
push_ignoresActive(r) ==
  IF Cardinality(available) >= poolsize
    THEN IF r = NIL
           THEN PushRes(available, inUse, closed, TRUE)
           ELSE PushRes(available, inUse \ {r}, closed \cup {r}, FALSE)
    ELSE PushRes(available \cup {r}, inUse \ {r}, closed, FALSE)

\* push as it would be if available were full only above the capacity.
push_limitOffByOne(r) ==
  IF ~active \/ Cardinality(available) > poolsize
    THEN IF r = NIL
           THEN PushRes(available, inUse, closed, TRUE)
           ELSE PushRes(available, inUse \ {r}, closed \cup {r}, FALSE)
    ELSE PushRes(available \cup {r}, inUse \ {r}, closed, FALSE)

\* pool.push.  Closing the nil session dereferences nil: the process dies, and
\* the state is kept as it was when the call began.
push(r) ==
  IF ~active \/ Cardinality(available) >= poolsize
    THEN IF r = NIL
           THEN PushRes(available, inUse, closed, TRUE)
           ELSE PushRes(available, inUse \ {r}, closed \cup {r}, FALSE)
    ELSE PushRes(available \cup {r}, inUse \ {r}, closed, FALSE)

\* kill as it would be if the closed session were left in inUse.
kill_keepsInUse(r) == PushRes(available, inUse, closed \cup {r}, FALSE)

\* kill as it would be if it filed the session in available.
kill_retains(r) == PushRes(available \cup {r}, inUse \ {r}, closed, FALSE)

\* pool.kill
kill(r) == PushRes(available, inUse \ {r}, closed \cup {r}, FALSE)

\* pool.close: the state after a successful close.
close == PushRes({}, inUse, closed \cup available, FALSE)

\* ------------------------------------------------------ server and session
MaxWire == 1

OKReply == Scalar("status", "OK")
ErrReply == Scalar("error", "ERR")
NestedFirst == Arr(<< Arr(<< Scalar("int", "1") >>), Scalar("status", "OK") >>)
TimeoutReply == Scalar("timeout", "")

\* What the server answers a command with: a well-formed reply, or the
\* timeout marker of a blocking command.
DoReplies == { OKReply, ErrReply, NestedFirst, TimeoutReply }
SelectReplies == { OKReply, ErrReply }
Answer(rep) == IF rep = TimeoutReply THEN << TimeoutLine >> ELSE Enc(rep)

\* The network during one call: fine, the write fails, or the read fails.
IOs == { "ok", "sendfail", "recvfail" }

\* ResultSet.ValueAt(0)
ValueAt0(result) ==
  IF Len(result.items) < 1 THEN [v |-> <<>>, err |-> "index"]
  ELSE IF result.items[1].set THEN [v |-> <<>>, err |-> "type"]
  ELSE [v |-> result.items[1].v, err |-> "none"]

Exchange(err, w) == [err |-> err, wire |-> w]

\* resp.selectDatabase on a session whose unread bytes are w: the command is
\* sent, the server answers rep, one result set is read and must be OK.
selectDatabase(w, io, rep) ==
  IF io = "sendfail" THEN Exchange("io", w)
  ELSE IF io = "recvfail" THEN Exchange("io", w)
  ELSE LET rr == receiveResultSet(w \o Answer(rep))
       IN IF rr.err # "none" THEN Exchange(rr.err, rr.rest)
          ELSE IF ValueAt0(rr.result).err # "none" THEN Exchange("select", rr.rest)
          ELSE IF ~IsOK(ValueAt0(rr.result).v) THEN Exchange("select", rr.rest)
          ELSE Exchange("none", rr.rest)

\* resp.authenticate: nothing is sent unless a password is configured.
authenticate(w, pw, io, rep) ==
  IF ~pw THEN Exchange("none", w)
  ELSE IF io = "sendfail" THEN Exchange("io", w)
  ELSE IF io = "recvfail" THEN Exchange("io", w)
  ELSE LET rr == receiveResultSet(w \o Answer(rep))
       IN IF rr.err # "none" THEN Exchange(rr.err, rr.rest)
          ELSE IF ValueAt0(rr.result).err # "none" THEN Exchange("auth", rr.rest)
          ELSE IF ~IsOK(ValueAt0(rr.result).v) THEN Exchange("auth", rr.rest)
          ELSE Exchange("none", rr.rest)

\* The commands a handshake that gave a got an OK for before it ran b.
Shaken(a, b, first, second) ==
  [err |-> IF a.err # "none" THEN a.err ELSE b.err,
   wire |-> IF a.err # "none" THEN a.wire ELSE b.wire,
   log |-> IF a.err # "none" \/ b.err # "none" THEN <<>> ELSE first \o second]

\* The handshake as it would be if the database were selected before the
\* authentication.
handshake_selectFirst(w, pw, io1, rep1, io2, rep2) ==
  LET a == selectDatabase(w, io2, rep2)
      b == authenticate(a.wire, pw, io1, rep1)
  IN Shaken(a, b, <<"select">>, IF pw THEN <<"auth">> ELSE <<>>)

\* The handshake of newConnection and newPipeline on a session whose unread
\* bytes are w: authenticate, then selectDatabase.
handshake(w, pw, io1, rep1, io2, rep2) ==
  LET a == authenticate(w, pw, io1, rep1)
      b == selectDatabase(a.wire, io2, rep2)
  IN Shaken(a, b, IF pw THEN <<"auth">> ELSE <<>>, <<"select">>)

\* The loop of Pipeline.Collect: n result sets read from the stream.
RECURSIVE collectLoop(_, _, _)
collectLoop(stream, n, results) ==
  IF n <= 0 THEN [err |-> "none", results |-> results, rest |-> stream]
  ELSE LET rr == receiveResultSet(stream)
       IN IF rr.err # "none"
            THEN [err |-> rr.err, results |-> <<>>, rest |-> rr.rest]
            ELSE collectLoop(rr.rest, n - 1, Append(results, rr.result))

\* ------------------------------------------------------------ the commands
\* A command name is the sequence of its letters.
Get == <<"g", "e", "t">>
Subscribe == <<"s", "u", "b", "s", "c", "r", "i", "b", "e">>
PSubscribe == <<"P", "S", "u", "b", "s", "c", "r", "i", "b", "e">>
Commands == { Get, Subscribe, PSubscribe }

UpperCase == <<"B", "C", "E", "G", "I", "P", "R", "S", "T", "U">>
LowerCase == <<"b", "c", "e", "g", "i", "p", "r", "s", "t", "u">>

\* strings.ToLower
ToLower(cmd) ==
  [i \in 1 .. Len(cmd) |->
     IF \E k \in 1 .. Len(UpperCase) : UpperCase[k] = cmd[i]
       THEN LowerCase[CHOOSE k \in 1 .. Len(UpperCase) : UpperCase[k] = cmd[i]]
       ELSE cmd[i]]

\* strings.Contains
Contains(str, sub) ==
  \E i \in 0 .. (Len(str) - Len(sub)) : SubSeq(str, i + 1, i + Len(sub)) = sub

\* The test as it would be without the conversion to lower case.
isSubscription_caseSensitive(cmd) == Contains(cmd, Subscribe)

\* The test Connection.Do and Pipeline.Do begin with.
isSubscription(cmd) == Contains(ToLower(cmd), Subscribe)

\* ------------------------------------------------------------ the options
DefaultTimeout == 30
DefaultIndex == 0
DefaultPoolSize == 10
MaxOptions == 2

\* What an option function leaves in the Database, and whether it failed.
Configured(err, nw, to, ix, pw, ps) ==
  [err |-> err, network |-> nw, timeout |-> to, index |-> ix, password |-> pw,
   poolsize |-> ps]

TCPConnection(to) ==
  IF to < 0 THEN Configured("invalid", "tcp", timeout, index, password, poolsize)
  ELSE Configured("none", "tcp", IF to = 0 THEN DefaultTimeout ELSE to, index,
                  password, poolsize)

UnixConnection(to) ==
  IF to < 0 THEN Configured("invalid", "unix", timeout, index, password, poolsize)
  ELSE Configured("none", "unix", IF to = 0 THEN DefaultTimeout ELSE to, index,
                  password, poolsize)

\* Index as it would be without its test of the index.
Index_acceptsNegative(ix, pw) ==
  Configured("none", network, timeout, ix, pw, poolsize)

Index(ix, pw) ==
  IF ix < 0 THEN Configured("invalid", network, timeout, index, password, poolsize)
  ELSE Configured("none", network, timeout, ix, pw, poolsize)

PoolSize(ps) ==
  IF ps < 0 THEN Configured("invalid", network, timeout, index, password, poolsize)
  ELSE Configured("none", network, timeout, index, password,
                  IF ps = 0 THEN DefaultPoolSize ELSE ps)

\* An option passed to Open: the option function and its arguments.
Opt(kind, n, pw) == [kind |-> kind, n |-> n, pw |-> pw]

OptionValues == { -1, 0, 1 }

Options ==
  { Opt(k, n, FALSE) : k \in {"TCPConnection", "UnixConnection", "PoolSize"},
                       n \in OptionValues }
  \cup { Opt("Index", n, pw) : n \in OptionValues, pw \in BOOLEAN }

\* option(db) for one of the options.
Apply(o) ==
  IF o.kind = "TCPConnection" THEN TCPConnection(o.n)
  ELSE IF o.kind = "UnixConnection" THEN UnixConnection(o.n)
  ELSE IF o.kind = "Index" THEN Index(o.n, o.pw)
  ELSE PoolSize(o.n)

\* ---------------------------------------------------- the CouchDB manager
\* A version: major, minor and patch number.
Versions == (0 .. MaxPart) \X (0 .. MaxPart) \X (0 .. MaxPart)

\* version.New(0, 0, 0)
Zero == <<0, 0, 0>>

\* nv.Compare(cv): the precedence of nv over cv.
Compare(nv, cv) ==
  IF nv = cv THEN "Equal"
  ELSE IF \/ nv[1] > cv[1]
          \/ nv[1] = cv[1] /\ nv[2] > cv[2]
          \/ nv[1] = cv[1] /\ nv[2] = cv[2] /\ nv[3] > cv[3]
         THEN "Newer"
         ELSE "Older"

\* The step lists Init is called with: each step by the version it returns.
StepLists == UNION { [1 .. n -> Versions] : n \in 0 .. MaxSteps }

\* No database yet and no call of Manager.Init.
NoDatabase ==
  /\ dbExists = FALSE
  /\ versionDoc = FALSE
  /\ stored = Zero
  /\ applied = <<>>
  /\ everStored = {}
  /\ steps = <<>>
  /\ todo = <<>>
  /\ start = Zero
  /\ mpc = "idle"
  /\ inits = 0

\* ------------------------------------------------------------ the encoder
\* A value passed to a command: a Value (bytes), a string or an integer.
Val(kind, text, n) == [kind |-> kind, text |-> text, n |-> n]

Vals == { Val("Value", "a", 0), Val("string", "bb", 0), Val("int", "", 1) }
Keys == { Val("string", "k", 0), Val("string", "kk", 0) }

\* The decimal text of the integers of Vals.
Digits == [n \in 0 .. 1 |-> IF n = 0 THEN "0" ELSE "1"]

\* valueToBytes: the textual representation of a value that is no Value.
valueToBytes(value) == IF value.kind = "int" THEN Digits[value.n] ELSE value.text

\* An argument: a scalar, a valuer (Len, Values), a Hash or a Hashable (Len,
\* GetHash).  vs are the values, keys the keys of a hash in the order range
\* yields them.
Arg(tag, keys, vs) == [tag |-> tag, keys |-> keys, vs |-> vs]

Seqs(S, n) == UNION { [1 .. m -> S] : m \in 0 .. n }
Distinct(q) == \A i, j \in DOMAIN q : i # j => q[i] # q[j]

Args ==
  { Arg("scalar", <<>>, << v >>) : v \in Vals }
  \cup { Arg("valuer", <<>>, vs) : vs \in Seqs(Vals, MaxLen) }
  \cup UNION { { Arg(tag, ks, vs) : tag \in {"Hash", "Hashable"}, vs \in [DOMAIN ks -> Vals] }
               : ks \in { q \in Seqs(Keys, MaxLen) : Distinct(q) } }

\* typedArg.Len() of a valuer, a Hash or a Hashable.
ArgLen(arg) == IF arg.tag = "valuer" THEN Len(arg.vs) ELSE Len(arg.keys)

RECURSIVE lengthOf(_)
lengthOf(as) ==
  IF as = <<>> THEN 0
  ELSE (CASE Head(as).tag = "valuer" -> ArgLen(Head(as))
          [] Head(as).tag = "Hash" -> ArgLen(Head(as)) * 2
          [] Head(as).tag = "Hashable" -> ArgLen(Head(as)) * 2
          [] OTHER -> 1)
       + lengthOf(Tail(as))

\* buildLengthPart as it would be if a Hash counted once per entry.
buildLengthPart_hashOnce(as) ==
  Line("*", 1 + lengthOf(as)
            - (IF as # <<>> /\ Head(as).tag = "Hash" THEN ArgLen(Head(as)) ELSE 0), "")

buildLengthPart(as) == Line("*", 1 + lengthOf(as), "")

buildValuePart(value) ==
  LET raw == IF value.kind = "Value" THEN value.text ELSE valueToBytes(value)
  IN Line("$", Len(raw), raw)

RECURSIVE buildValuesPart(_)
buildValuesPart(vs) ==
  IF vs = <<>> THEN <<>>
  ELSE << buildValuePart(Head(vs)) >> \o buildValuesPart(Tail(vs))

RECURSIVE buildHashPart(_, _)
buildHashPart(keys, vs) ==
  IF keys = <<>> THEN <<>>
  ELSE << buildValuePart(Head(keys)), buildValuePart(Head(vs)) >>
       \o buildHashPart(Tail(keys), Tail(vs))

RECURSIVE buildArgumentsPart(_)
buildArgumentsPart(as) ==
  IF as = <<>> THEN <<>>
  ELSE (CASE Head(as).tag = "valuer" -> buildValuesPart(Head(as).vs)
          [] Head(as).tag = "Hash" -> buildHashPart(Head(as).keys, Head(as).vs)
          [] Head(as).tag = "Hashable" -> buildHashPart(Head(as).keys, Head(as).vs)
          [] OTHER -> << buildValuePart(Head(as).vs[1]) >>)
       \o buildArgumentsPart(Tail(as))

\* The packet sendCommand writes: join(lengthPart, cmdPart, argsPart).
Packet(cmd, as) ==
  << buildLengthPart(as) >> \o << buildValuePart(cmd) >> \o buildArgumentsPart(as)

\* No command is being sent.
NotSending ==
  /\ args = <<>>
  /\ packet = <<>>

\* ------------------------------------------------- the reader, byte by byte
NoResponse == [kind |-> "none", length |-> 0, data |-> <<>>, err |-> "none", panic |-> FALSE]

RawResponse(kind, length, data, err) ==
  [kind |-> kind, length |-> length, data |-> data, err |-> err, panic |-> FALSE]

\* The run-time panic of a slice expression or a make out of range.
Panic == [kind |-> "none", length |-> 0, data |-> <<>>, err |-> "none", panic |-> TRUE]

LineBytes == {"+", "-", "$", "*", "0", "1", "2", "\r"}
FollowBytes == {"a", "\n"}
Numerals == {"0", "1", "2"}

\* The lines ReadBytes can return: one that ends with the delimiter, or, with
\* an error, what was read when the connection failed.
RawLines ==
  Seqs(LineBytes, MaxLine) \cup { l \o << "\n" >> : l \in Seqs(LineBytes, MaxLine) }

Ended(l) == l # <<>> /\ l[Len(l)] = "\n"

NumeralValue(c) == CASE c = "0" -> 0 [] c = "1" -> 1 [] OTHER -> 2

RECURSIVE Decimal(_)
Decimal(ds) ==
  IF ds = <<>> THEN 0 ELSE Decimal(SubSeq(ds, 1, Len(ds) - 1)) * 10 + NumeralValue(ds[Len(ds)])

\* strconv.Atoi: an optional sign and at least one decimal digit.
Atoi(text) ==
  LET signed == text # <<>> /\ Head(text) \in {"+", "-"}
      ds == IF signed THEN Tail(text) ELSE text
      ok == ds # <<>> /\ \A i \in DOMAIN ds : ds[i] \in Numerals
  IN [ok |-> ok,
      n |-> IF ~ok THEN 0
            ELSE IF signed /\ Head(text) = "-" THEN 0 - Decimal(ds) ELSE Decimal(ds)]

\* receiveResponse on the bytes: l is what ReadBytes returned, rest what the
\* reader holds behind it.
receiveResponseRaw(l, rest) ==
  IF ~Ended(l) THEN RawResponse("receivingError", 0, <<>>, "broken")
  ELSE IF Len(l) - 2 < 1 THEN Panic
  ELSE
    LET content == SubSeq(l, 2, Len(l) - 2)
        number == Atoi(content)
    IN CASE l[1] = "+" -> RawResponse("statusResponse", 0, SubSeq(l, 1, Len(l) - 2), "none")
         [] l[1] = "-" -> RawResponse("errorResponse", 0, SubSeq(l, 1, Len(l) - 2), "none")
         [] l[1] = ":" -> RawResponse("integerResponse", 0, content, "none")
         [] l[1] = "$" ->
              IF ~number.ok THEN RawResponse("receivingError", 0, <<>>, "server")
              ELSE IF number.n = -1 THEN RawResponse("nullBulkResponse", 0, <<>>, "none")
              ELSE IF number.n + 2 < 0 THEN Panic
              ELSE IF Len(rest) < number.n + 2
                   THEN RawResponse("receivingError", 0, <<>>, "broken")
              ELSE IF number.n < 0 THEN Panic
              ELSE RawResponse("bulkResponse", 0, SubSeq(rest, 1, number.n), "none")
         [] l[1] = "*" ->
              IF ~number.ok THEN RawResponse("receivingError", 0, <<>>, "server")
              ELSE IF number.n = -1 THEN RawResponse("timeoutError", 0, <<>>, "none")
              ELSE RawResponse("arrayResponse", number.n, <<>>, "none")
         [] OTHER -> RawResponse("receivingError", 0, <<>>, "invalid")

\* No line is being read.
NotReading ==
  /\ rawLine = <<>>
  /\ follow = <<>>
  /\ parsed = NoResponse

\* ------------------------------------------------------------ the clients
Op(op, t, err, r, out) == [op |-> op, t |-> t, err |-> err, r |-> r, out |-> out]

Undecoded == Received("pending", NoResult, <<>>)

\* A thread that is in no pool operation.
NoCall ==
  [by |-> "none", op |-> "none", at |-> "idle", r |-> NIL, pick |-> NIL, dial |-> TRUE,
   exp |-> [r |-> NIL, active |-> TRUE, available |-> {}, inUse |-> {},
            closed |-> {}, nextId |-> 0]]

\* No session was created yet and no thread has called anything.
Unused ==
  /\ mu = NIL
  /\ call = [t \in Threads |-> NoCall]
  /\ available = {}
  /\ inUse = {}
  /\ dbmu = NIL
  /\ nextId = 1
  /\ closed = {}
  /\ wire = [s \in Sessions |-> <<>>]
  /\ pc = [t \in Threads |-> "idle"]
  /\ connResp = [t \in Threads |-> NIL]
  /\ pplResp = [t \in Threads |-> NIL]
  /\ counter = [t \in Threads |-> 0]
  /\ pending = [t \in Threads |-> <<>>]
  /\ forced = {}
  /\ broken = {}
  /\ shaken = {}
  /\ panicked = FALSE
  /\ lastOp = Op("Open", NIL, "none", NIL, <<>>)
  /\ reply = OKReply
  /\ decoded = Undecoded
  /\ unread = <<>>
  /\ sets = << newResultSet >>
  /\ cursor = 0
  /\ declared = {}
  /\ NoDatabase

\* Open has returned a Database: the defaults, but for the pool size and the
\* password, which the options set.
Opened ==
  /\ poolsize \in 1 .. MaxPool
  /\ timeout = DefaultTimeout
  /\ index = DefaultIndex
  /\ network = "unix"
  /\ options = <<>>
  /\ opened = "open"
  /\ active = TRUE
  /\ Unused

\* Open with the default password, the empty string.
Init ==
  /\ Opened
  /\ password = FALSE
  /\ NotSending
  /\ NotReading

\* A thread that holds neither a usable Connection nor a Pipeline with a session.
Free(t) == pc[t] \in {"idle", "returned"} \/ (pc[t] = "ppl" /\ pplResp[t] = NIL)

\* The pool after a push, kill or close that gave p: a closed session loses
\* its unread bytes and the records kept per open session.
Settle(p, f, b, w) ==
  /\ available' = p.available
  /\ inUse' = p.inUse
  /\ closed' = p.closed
  /\ forced' = f \ p.closed
  /\ broken' = b \ p.closed
  /\ shaken' = shaken \ p.closed
  /\ wire' = [s \in Sessions |-> IF s \in p.closed THEN <<>> ELSE w[s]]

\* One poll of pull by pullRetry, inside Database.Connection (db.mu is held).
Poll(t) ==
  \E pick \in Picks, dial \in PullDials :
    LET res == pull(pick, dial)
    IN /\ Creates(res) => nextId <= MaxSessions
       /\ available' = res.available
       /\ inUse' = res.inUse
       /\ nextId' = res.nextId
       /\ dbmu' = t
       /\ connResp' = [connResp EXCEPT ![t] = res.r]
       /\ shaken' = shaken \ {res.r}
       /\ pc' = [pc EXCEPT ![t] = IF res.r # NIL THEN "connHandshake" ELSE "pullRetry"]
       /\ lastOp' = Op("pull", t, res.err, res.r, <<>>)
       /\ counter' = [counter EXCEPT ![t] = 0]
       /\ pending' = [pending EXCEPT ![t] = <<>>]
       /\ UNCHANGED <<elsewhere, config, lockVars, active, closed, wire, pplResp, forced, broken,
                      panicked, codecVars>>

\* Database.Connection up to the first poll of pullRetry.
Connection(t) ==
  /\ ~panicked
  /\ Free(t)
  /\ dbmu = NIL
  /\ Poll(t)

\* A later poll of pullRetry.
pullRetry(t) ==
  /\ ~panicked
  /\ pc[t] = "pullRetry"
  /\ Poll(t)

\* The deadline of pullRetry passes after a poll that gave no session.
pullRetryDeadline(t) ==
  /\ ~panicked
  /\ pc[t] = "pullRetry"
  /\ pc' = [pc EXCEPT ![t] = "idle"]
  /\ dbmu' = NIL
  /\ lastOp' = Op("Connection", t, "deadline", NIL, <<>>)
  /\ UNCHANGED <<aside, config, lockVars, poolVars, wire, connResp, pplResp, counter, pending,
                 broken, panicked, codecVars>>

\* The end of newConnection and newPipeline on session s: the handshake gave
\* h; a failed handshake kills the session and no object is returned.
HandshakeStep(t, s, name, okpc, h) ==
  /\ dbmu' = NIL
  /\ IF h.err = "none"
       THEN /\ pc' = [pc EXCEPT ![t] = okpc]
            /\ wire' = [wire EXCEPT ![s] = h.wire]
            /\ shaken' = shaken \cup {s}
            /\ UNCHANGED <<available, inUse, closed, broken, forced, connResp, pplResp>>
       ELSE /\ pc' = [pc EXCEPT ![t] = "idle"]
            /\ Settle(kill(s), forced, broken, wire)
            /\ connResp' = [connResp EXCEPT ![t] = NIL]
            /\ pplResp' = [pplResp EXCEPT ![t] = NIL]
  /\ lastOp' = Op(name, t, h.err, IF h.err = "none" THEN s ELSE NIL, h.log)
  /\ UNCHANGED <<elsewhere, config, lockVars, active, nextId, counter, pending, panicked, codecVars>>

\* The handshake of newConnection and newPipeline on session s.
Handshake(t, s, name, okpc) ==
  /\ Len(wire[s]) <= MaxWire
  /\ \E io1 \in IOs, rep1 \in SelectReplies, io2 \in IOs, rep2 \in SelectReplies :
       /\ io1 = "ok" \/ rep1 = OKReply
       /\ io2 = "ok" \/ rep2 = OKReply
       /\ ~password => io1 = "ok" /\ rep1 = OKReply
       /\ HandshakeStep(t, s, name, okpc,
                        handshake(wire[s], password, io1, rep1, io2, rep2))

\* newConnection after pullRetry gave a session.
newConnection(t) ==
  /\ ~panicked
  /\ pc[t] = "connHandshake"
  /\ Handshake(t, connResp[t], "Connection", "conn")

\* What one command does to session s when the network is io and the server
\* answers rep: the command is sent, the answer arrives, one result set is read.
doCommand(s, io, rep) ==
  IF io = "sendfail" THEN [err |-> "io", wire |-> wire[s], out |-> << >>]
  ELSE IF io = "recvfail" THEN [err |-> "io", wire |-> wire[s], out |-> << >>]
  ELSE LET rr == receiveResultSet(wire[s] \o Answer(rep))
       IN [err |-> rr.err, wire |-> rr.rest, out |-> [result |-> rr.result, reply |-> rep]]

\* Connection.Do with a subscription command: refused before anything is sent.
DoSubscribe(t) ==
  /\ ~panicked
  /\ pc[t] \in {"conn", "returned"}
  /\ \E cmd \in Commands :
       /\ isSubscription(cmd)
       /\ lastOp' = Op("Do", t, "misuse", connResp[t], [cmd |-> cmd])
  /\ UNCHANGED <<aside, config, lockVars, poolVars, dbmu, wire, pc, connResp, pplResp, counter,
                 pending, broken, panicked, codecVars>>

\* Connection.Do on a Connection that was returned: conn.resp is nil.
DoReturned(t) ==
  /\ ~panicked
  /\ pc[t] = "returned"
  /\ panicked' = TRUE
  /\ lastOp' = Op("Do", t, "panic", NIL, <<>>)
  /\ UNCHANGED <<aside, config, lockVars, poolVars, dbmu, wire, pc, connResp, pplResp, counter,
                 pending, broken, codecVars>>

\* Connection.Do: a failure is returned, the session stays with the Connection.
Do(t, replies) ==
  /\ ~panicked
  /\ pc[t] = "conn"
  /\ Len(wire[connResp[t]]) <= MaxWire
  /\ \E cmd \in Commands, io \in IOs, rep \in replies :
       LET s == connResp[t]
           d == doCommand(s, io, rep)
       IN /\ ~isSubscription(cmd)
          /\ lastOp' = Op("Do", t, d.err, s, [cmd |-> cmd] @@ d.out)
          /\ broken' = IF d.err = "none" THEN broken ELSE broken \cup {s}
          /\ wire' = [wire EXCEPT ![s] = d.wire]
  /\ UNCHANGED <<aside, config, lockVars, active, available, inUse, nextId, closed, forced, dbmu,
                 pc, connResp, pplResp, counter, pending, panicked, codecVars>>

\* The body of Connection.Return.
ReturnStep(t) ==
  /\ LET p == push(connResp[t])
     IN /\ Settle(p, forced, broken, wire)
        /\ panicked' = p.panic
        /\ lastOp' = Op("Return", t, IF p.panic THEN "panic" ELSE "none", connResp[t], <<>>)
        /\ connResp' = [connResp EXCEPT ![t] = IF p.panic THEN @ ELSE NIL]
        /\ pc' = [pc EXCEPT ![t] = IF p.panic THEN @ ELSE "returned"]
  /\ UNCHANGED <<elsewhere, config, lockVars, active, nextId, dbmu, pplResp, counter, pending, codecVars>>

\* Return as it would be if it took the Database lock as Connection() does.
Return_locksDatabase(t) ==
  /\ ~panicked
  /\ pc[t] \in {"conn", "returned"}
  /\ dbmu = NIL
  /\ ReturnStep(t)

\* Connection.Return: the session is pushed under the pool's lock alone, then
\* the Connection drops it.
Return(t) ==
  /\ ~panicked
  /\ pc[t] \in {"conn", "returned"}
  /\ ReturnStep(t)


\* ensureProtocol as it would be if it kept the counter of the earlier batch.
ensureProtocol_keepsCounter(t, dial) ==
  IF pplResp[t] = NIL
    THEN LET res == pullForced(dial)
         IN IF res.err # "none"
              THEN [err |-> res.err, r |-> NIL, counter |-> counter[t],
                    pending |-> pending[t], pool |-> res]
              ELSE [err |-> "none", r |-> res.r, counter |-> counter[t],
                    pending |-> pending[t], pool |-> res]
    ELSE [err |-> "none", r |-> pplResp[t], counter |-> counter[t],
          pending |-> pending[t],
          pool |-> PoolRes(pplResp[t], "none", available, inUse, nextId)]

\* Pipeline.ensureProtocol: the Pipeline's session, counter and counted
\* replies after it, and what pullForced gave.
ensureProtocol(t, dial) ==
  IF pplResp[t] = NIL
    THEN LET res == pullForced(dial)
         IN IF res.err # "none"
              THEN [err |-> res.err, r |-> NIL, counter |-> counter[t],
                    pending |-> pending[t], pool |-> res]
              ELSE [err |-> "none", r |-> res.r, counter |-> 0,
                    pending |-> <<>>, pool |-> res]
    ELSE [err |-> "none", r |-> pplResp[t], counter |-> counter[t],
          pending |-> pending[t],
          pool |-> PoolRes(pplResp[t], "none", available, inUse, nextId)]

\* Database.Pipeline up to the handshake of newPipeline.
Pipeline(t) ==
  /\ ~panicked
  /\ Free(t)
  /\ dbmu = NIL
  /\ \E dial \in ForcedDials(NIL) :
       LET res == pullForced(dial)
       IN /\ Creates(res) => nextId <= MaxSessions
          /\ inUse' = res.inUse
          /\ nextId' = res.nextId
          /\ forced' = IF res.err = "none" THEN forced \cup {res.r} ELSE forced
          /\ pplResp' = [pplResp EXCEPT ![t] = res.r]
          /\ dbmu' = IF res.err = "none" THEN t ELSE NIL
          /\ pc' = [pc EXCEPT ![t] = IF res.err = "none" THEN "pplHandshake" ELSE "idle"]
          /\ lastOp' = Op("pullForced", t, res.err, res.r, <<>>)
  /\ connResp' = [connResp EXCEPT ![t] = NIL]
  /\ counter' = [counter EXCEPT ![t] = 0]
  /\ pending' = [pending EXCEPT ![t] = <<>>]
  /\ UNCHANGED <<aside, config, lockVars, active, available, closed, wire, broken, panicked, codecVars>>

\* newPipeline after ensureProtocol gave a session.
newPipeline(t) ==
  /\ ~panicked
  /\ pc[t] = "pplHandshake"
  /\ Handshake(t, pplResp[t], "Pipeline", "ppl")

\* Pipeline.Do with a subscription command.
PipelineDoSubscribe(t) ==
  /\ ~panicked
  /\ pc[t] = "ppl"
  /\ \E cmd \in Commands :
       /\ isSubscription(cmd)
       /\ lastOp' = Op("PipelineDo", t, "misuse", pplResp[t], [cmd |-> cmd])
  /\ UNCHANGED <<aside, config, lockVars, poolVars, dbmu, wire, pc, connResp, pplResp, counter,
                 pending, broken, panicked, codecVars>>

\* Pipeline.Do: the command is sent and counted, its reply is left unread.
PipelineDo(t, replies) ==
  /\ ~panicked
  /\ pc[t] = "ppl"
  /\ \E cmd \in Commands, dial \in ForcedDials(pplResp[t]),
        io \in {"ok", "sendfail"}, rep \in replies :
       LET e == ensureProtocol(t, dial)
           s == e.r
       IN /\ ~isSubscription(cmd)
          /\ Creates(e.pool) => nextId <= MaxSessions
          /\ e.err # "none" => io = "ok"
          /\ inUse' = e.pool.inUse
          /\ nextId' = e.pool.nextId
          /\ forced' = IF Creates(e.pool) THEN forced \cup {s} ELSE forced
          /\ pplResp' = [pplResp EXCEPT ![t] = s]
          /\ IF e.err # "none"
               THEN /\ lastOp' = Op("PipelineDo", t, e.err, NIL, [cmd |-> cmd])
                    /\ UNCHANGED <<counter, pending, wire, broken>>
             ELSE IF io = "sendfail"
               THEN /\ lastOp' = Op("PipelineDo", t, "io", s, [cmd |-> cmd])
                    /\ counter' = [counter EXCEPT ![t] = e.counter]
                    /\ pending' = [pending EXCEPT ![t] = e.pending]
                    /\ broken' = broken \cup {s}
                    /\ UNCHANGED wire
             ELSE /\ e.counter < MaxCmds
                  /\ lastOp' = Op("PipelineDo", t, "none", s, [cmd |-> cmd])
                  /\ counter' = [counter EXCEPT ![t] = e.counter + 1]
                  /\ pending' = [pending EXCEPT ![t] = Append(e.pending, rep)]
                  /\ wire' = [wire EXCEPT ![s] = @ \o Answer(rep)]
                  /\ UNCHANGED broken
  /\ UNCHANGED <<aside, config, lockVars, active, available, closed, dbmu, pc, connResp,
                 panicked, codecVars>>

\* Pipeline.Collect: counter result sets are read, then the session is pushed;
\* a failed read kills it.  The Pipeline drops the session in every case.
Collect(t) ==
  /\ ~panicked
  /\ pc[t] = "ppl"
  /\ \E dial \in ForcedDials(pplResp[t]), io \in {"ok", "recvfail"} :
       LET e == ensureProtocol(t, dial)
           s == e.r
           c == IF io = "recvfail"
                  THEN [err |-> "io", results |-> <<>>, rest |-> wire[s]]
                  ELSE collectLoop(wire[s], e.counter, <<>>)
           f == IF Creates(e.pool) THEN forced \cup {s} ELSE forced
       IN /\ Creates(e.pool) => nextId <= MaxSessions
          /\ io = "recvfail" => e.err = "none" /\ e.counter > 0
          /\ nextId' = e.pool.nextId
          /\ pplResp' = [pplResp EXCEPT ![t] = NIL]
          /\ counter' = [counter EXCEPT ![t] = e.counter]
          /\ pending' = [pending EXCEPT ![t] = e.pending]
          /\ IF e.err # "none"
               THEN /\ lastOp' = Op("Collect", t, e.err, NIL, <<>>)
                    /\ UNCHANGED <<available, inUse, closed, forced, wire, broken, shaken>>
             ELSE IF c.err # "none"
               THEN /\ lastOp' = Op("Collect", t, c.err, s, <<>>)
                    /\ Settle(kill(s), f, broken, wire)
             ELSE /\ lastOp' = Op("Collect", t, "none", s,
                                  [results |-> c.results, pending |-> e.pending])
                  /\ Settle(push(s), f, broken, [wire EXCEPT ![s] = c.rest])
  /\ UNCHANGED <<elsewhere, config, lockVars, active, dbmu, pc, connResp, panicked, codecVars>>

\* Database.Close
Close(t) ==
  /\ ~panicked
  /\ pc[t] \in {"idle", "conn", "returned", "ppl"}
  /\ dbmu = NIL
  /\ IF ~active
       THEN /\ lastOp' = Op("Close", t, "closed", NIL, <<>>)
            /\ UNCHANGED <<active, available, inUse, closed, forced, broken, shaken, wire, panicked>>
     ELSE IF NIL \in available
       THEN /\ lastOp' = Op("Close", t, "panic", NIL, <<>>)
            /\ panicked' = TRUE
            /\ UNCHANGED <<active, available, inUse, closed, forced, broken, shaken, wire>>
     ELSE /\ lastOp' = Op("Close", t, "none", NIL, <<>>)
          /\ active' = FALSE
          /\ Settle(close, forced, broken, wire)
          /\ UNCHANGED panicked
  /\ UNCHANGED <<elsewhere, config, lockVars, nextId, dbmu, pc, connResp, pplResp, counter, pending,
                 codecVars>>

\* The replies the decoder takes exactly the lines of.
FlatReplies == { OKReply }

Next ==
  \E t \in Threads :
    \/ Connection(t)
    \/ pullRetry(t)
    \/ pullRetryDeadline(t)
    \/ newConnection(t)
    \/ DoSubscribe(t)
    \/ DoReturned(t)
    \/ Do(t, FlatReplies)
    \/ Return(t)
    \/ Pipeline(t)
    \/ newPipeline(t)
    \/ PipelineDoSubscribe(t)
    \/ PipelineDo(t, FlatReplies)
    \/ Collect(t)
    \/ Close(t)

Spec == Init /\ [][Next]_vars

\* The same clients, with or without a configured password.
InitAuth ==
  /\ Opened
  /\ password \in BOOLEAN
  /\ NotSending
  /\ NotReading

\* The operations that obtain, use, hand back or close a session and so
\* decide whether a handshake is made: Pipeline.Do is left out, the commands
\* of a Pipeline are those of Spec.
NextAuth ==
  \E t \in Threads :
    \/ Connection(t)
    \/ pullRetry(t)
    \/ pullRetryDeadline(t)
    \/ newConnection(t)
    \/ Do(t, FlatReplies)
    \/ Return(t)
    \/ Pipeline(t)
    \/ newPipeline(t)
    \/ Collect(t)
    \/ Close(t)

SpecAuth == InitAuth /\ [][NextAuth]_vars

\* The clients against a server that also answers with nested arrays and with
\* the timeout marker, so that a session may keep unread bytes.
NextWire ==
  \E t \in {1} :
    \/ Connection(t)
    \/ pullRetry(t)
    \/ pullRetryDeadline(t)
    \/ newConnection(t)
    \/ Do(t, DoReplies)
    \/ Return(t)
    \/ Pipeline(t)
    \/ newPipeline(t)
    \/ PipelineDo(t, DoReplies)
    \/ Collect(t)

SpecWire == Init /\ [][NextWire]_vars

\* ------------------------------------------------------ the decoder alone
\* The well-formed replies of at most n nodes (a scalar or an array header
\* is one node).
RECURSIVE TreesOf(_)
RECURSIVE ForestsOf(_)
TreesOf(n) ==
  IF n < 1 THEN {}
  ELSE (IF n = 1 THEN Leaves ELSE {}) \cup { Arr(f) : f \in ForestsOf(n - 1) }

ForestsOf(n) ==
  IF n = 0 THEN { <<>> }
  ELSE UNION { { <<t>> \o f : t \in TreesOf(k), f \in ForestsOf(n - k) } : k \in 1 .. n }

Replies == UNION { TreesOf(n) : n \in 1 .. MaxNodes }

InitCodec ==
  /\ Init
  /\ poolsize = 1

\* The server's reply arrives.
Receive ==
  /\ decoded = Undecoded
  /\ lastOp.op = "Open"
  /\ \E r \in Replies :
       /\ reply' = r
       /\ lastOp' = Op("receive", NIL, "none", NIL, <<>>)
  /\ UNCHANGED <<aside, config, lockVars, poolVars, dbmu, wire, pc, connResp, pplResp, counter,
                 pending, broken, panicked, decoded>>

\* receiveResultSet reads it.
Decode ==
  /\ decoded = Undecoded
  /\ lastOp.op = "receive"
  /\ decoded' = receiveResultSet(Enc(reply))
  /\ UNCHANGED <<aside, config, lockVars, poolVars, dbmu, wire, pc, connResp, pplResp, counter,
                 pending, broken, panicked, lastOp, reply>>

NextCodec == Receive \/ Decode

SpecCodec == InitCodec /\ [][NextCodec]_vars

\* ------------------------------------------------------------------- Open
\* Open, option by option.  Before newPool there is no pool, which active =
\* FALSE stands for.
InitOpen ==
  /\ poolsize = DefaultPoolSize
  /\ password = FALSE
  /\ timeout = DefaultTimeout
  /\ index = DefaultIndex
  /\ network = "unix"
  /\ options \in UNION { [1 .. n -> Options] : n \in 0 .. MaxOptions }
  /\ opened = "opening"
  /\ active = FALSE
  /\ Unused
  /\ NotSending
  /\ NotReading

\* One turn of the loop of Open: option(db).
OpenOption ==
  /\ opened = "opening"
  /\ options # <<>>
  /\ LET c == Apply(Head(options))
     IN /\ network' = c.network
        /\ timeout' = c.timeout
        /\ index' = c.index
        /\ password' = c.password
        /\ poolsize' = c.poolsize
        /\ IF c.err = "none"
             THEN options' = Tail(options) /\ opened' = "opening"
             ELSE options' = options /\ opened' = "failed"
  /\ UNCHANGED <<aside, lockVars, poolVars, dbmu, wire, pc, connResp, pplResp, counter,
                 pending, broken, panicked, lastOp, codecVars>>

\* db.pool = newPool(db); return db, nil
OpenPool ==
  /\ opened = "opening"
  /\ options = <<>>
  /\ active' = TRUE
  /\ opened' = "open"
  /\ UNCHANGED <<aside, poolsize, password, timeout, index, network, options, lockVars,
                 available, inUse, nextId, closed, forced, dbmu, wire, pc, connResp,
                 pplResp, counter, pending, broken, panicked, lastOp, codecVars>>

NextOpen == OpenOption \/ OpenPool

SpecOpen == InitOpen /\ [][NextOpen]_vars

\* ------------------------------------------------ the decoder, turn by turn
\* receiveResultSet begins: result := newResultSet(); current := result.
receiveStart ==
  /\ decoded = Undecoded
  /\ lastOp.op = "receive"
  /\ unread' = Enc(reply)
  /\ sets' = << newResultSet >>
  /\ cursor' = 1
  /\ declared' = {}
  /\ lastOp' = Op("decoding", NIL, "none", NIL, <<>>)
  /\ UNCHANGED <<managerVars, sendVars, lineVars, shaken, config, lockVars, poolVars, dbmu, wire, pc, connResp, pplResp,
                 counter, pending, broken, panicked, codecVars>>

\* One turn of the loop of receiveResultSet.
receiveTurn ==
  /\ lastOp.op = "decoding"
  /\ LET rr == receiveResponse(unread)
         response == rr.resp
         after == CASE response.kind \in {"statusResponse", "errorResponse",
                                          "integerResponse", "bulkResponse",
                                          "nullBulkResponse"} ->
                         [arena |-> rsAppend(sets, cursor, ValueItem(response.data)),
                          current |-> cursor]
                    [] response.kind = "arrayResponse" ->
                         arrayCase(sets, cursor, response.length)
                    [] OTHER -> [arena |-> sets, current |-> cursor]
         nxt == nextResultSet(after.arena, after.current)
     IN /\ unread' = rr.rest
        /\ IF response.kind \in {"receivingError", "timeoutError"}
             THEN /\ decoded' = Received(IF response.kind = "timeoutError" THEN "timeout"
                                         ELSE response.err, NoResult, rr.rest)
                  /\ cursor' = 0
                  /\ lastOp' = Op("decoded", NIL, decoded'.err, NIL, <<>>)
                  /\ UNCHANGED <<sets, declared>>
             ELSE /\ sets' = after.arena
                  /\ declared' = IF response.kind = "arrayResponse"
                                   THEN declared \cup {after.current} ELSE declared
                  /\ cursor' = nxt
                  /\ IF nxt = 0
                       THEN /\ decoded' = Received("none", Tree(after.arena, 1), rr.rest)
                            /\ lastOp' = Op("decoded", NIL, "none", NIL, <<>>)
                       ELSE UNCHANGED <<decoded, lastOp>>
  /\ UNCHANGED <<managerVars, sendVars, lineVars, shaken, config, lockVars, poolVars, dbmu, wire, pc, connResp, pplResp,
                 counter, pending, broken, panicked, reply>>

NextTurns == Receive \/ receiveStart \/ receiveTurn

SpecTurns == InitCodec /\ [][NextTurns]_vars

\* ------------------------------------------- the decoder on a disturbed reply
\* The reply arrives with its k-th line replaced by the timeout marker, or
\* the connection fails after its first k - 1 lines.
Disturbed(lines, k, fault) ==
  IF fault = "timeout"
    THEN SubSeq(lines, 1, k - 1) \o << TimeoutLine >> \o SubSeq(lines, k + 1, Len(lines))
    ELSE SubSeq(lines, 1, k - 1)

\* receiveResultSet reads the disturbed reply.
DecodeDisturbed ==
  /\ decoded = Undecoded
  /\ lastOp.op = "receive"
  /\ \E k \in 1 .. Len(Enc(reply)), fault \in {"timeout", "io"} :
       LET stream == Disturbed(Enc(reply), k, fault)
       IN /\ decoded' = receiveResultSet(stream)
          /\ lastOp' = Op("disturbed", NIL, fault, NIL, [at |-> k, len |-> Len(stream)])
  /\ UNCHANGED <<aside, config, lockVars, poolVars, dbmu, wire, pc, connResp, pplResp, counter,
                 pending, broken, panicked, reply>>

NextDisturbed == Receive \/ DecodeDisturbed

SpecDisturbed == InitCodec /\ [][NextDisturbed]_vars

\* ------------------------------------------------------------ Manager.Init
\* Manager.Init up to the steps: HasDatabase, and on a missing database
\* CreateDatabase and CreateDocument of the version document.  io is the
\* request that fails, if one does.
ManagerInit ==
  /\ mpc \in {"idle", "done", "failed"}
  /\ inits < MaxInits
  /\ inits' = inits + 1
  /\ \E list \in StepLists, io \in {"ok", "HasDatabase", "CreateDatabase", "CreateDocument"} :
       /\ steps' = list
       /\ IF io = "HasDatabase"
            THEN /\ mpc' = "failed"
                 /\ UNCHANGED <<dbExists, versionDoc, stored, todo, start>>
            ELSE IF dbExists
              THEN /\ io = "ok"
                   /\ mpc' = "steps"
                   /\ todo' = list
                   /\ start' = stored
                   /\ UNCHANGED <<dbExists, versionDoc, stored>>
              ELSE IF io = "CreateDatabase"
                THEN /\ mpc' = "failed"
                     /\ UNCHANGED <<dbExists, versionDoc, stored, todo, start>>
                ELSE IF io = "CreateDocument"
                  THEN /\ dbExists' = TRUE
                       /\ mpc' = "failed"
                       /\ UNCHANGED <<versionDoc, stored, todo, start>>
                  ELSE /\ dbExists' = TRUE
                       /\ versionDoc' = TRUE
                       /\ stored' = Zero
                       /\ mpc' = "steps"
                       /\ todo' = list
                       /\ start' = Zero
  /\ UNCHANGED <<applied, everStored, redisVars>>

\* What Step.execute does with the step of version nv: whether the action is
\* performed, whether the version is stored, and whether it fails.  io is the
\* request or action that fails, if one does.
Executed(act, store, err) == [act |-> act, store |-> store, err |-> err]

\* Step.execute as it would be if it performed every step that is not older.
execute_notOlder(nv, io) ==
  IF ~versionDoc \/ io = "ReadDocument" THEN Executed(FALSE, FALSE, TRUE)
  ELSE IF Compare(nv, stored) = "Older" THEN Executed(FALSE, FALSE, FALSE)
  ELSE IF io = "action" THEN Executed(FALSE, FALSE, TRUE)
  ELSE IF io = "UpdateDocument" THEN Executed(TRUE, FALSE, TRUE)
  ELSE Executed(TRUE, TRUE, FALSE)

execute(nv, io) ==
  IF ~versionDoc \/ io = "ReadDocument" THEN Executed(FALSE, FALSE, TRUE)
  ELSE IF Compare(nv, stored) # "Newer" THEN Executed(FALSE, FALSE, FALSE)
  ELSE IF io = "action" THEN Executed(FALSE, FALSE, TRUE)
  ELSE IF io = "UpdateDocument" THEN Executed(TRUE, FALSE, TRUE)
  ELSE Executed(TRUE, TRUE, FALSE)

\* One turn of the loop of Steps.execute.
StepExecute ==
  /\ mpc = "steps"
  /\ todo # <<>>
  /\ \E io \in {"ok", "ReadDocument", "action", "UpdateDocument"} :
       LET nv == Head(todo)
           e == execute(nv, io)
       IN /\ applied' = IF e.act THEN Append(applied, nv) ELSE applied
          /\ stored' = IF e.store THEN nv ELSE stored
          /\ everStored' = IF e.store THEN everStored \cup {nv} ELSE everStored
          /\ IF e.err
               THEN mpc' = "failed" /\ todo' = todo
               ELSE mpc' = "steps" /\ todo' = Tail(todo)
  /\ UNCHANGED <<dbExists, versionDoc, steps, start, inits, redisVars>>

\* The loop of Steps.execute is through: Init returns nil.
StepsExecuted ==
  /\ mpc = "steps"
  /\ todo = <<>>
  /\ mpc' = "done"
  /\ UNCHANGED <<dbExists, versionDoc, stored, applied, everStored, steps, todo, start,
                 inits, redisVars>>

NextManager == ManagerInit \/ StepExecute \/ StepsExecuted

SpecManager == Init /\ [][NextManager]_vars

\* ------------------------------------------------------------- sendCommand
InitSend ==
  /\ Opened
  /\ poolsize = 1
  /\ password = FALSE
  /\ args \in Seqs(Args, MaxArgs)
  /\ packet = <<>>
  /\ NotReading

\* sendCommand builds and writes the packet of the command "get" with args.
sendCommand ==
  /\ packet = <<>>
  /\ packet' = Packet(Val("string", "get", 0), args)
  /\ UNCHANGED <<args, managerVars, lineVars, clientState>>

NextSend == sendCommand

SpecSend == InitSend /\ [][NextSend]_vars

\* ------------------------------------------- receiveResponse, byte by byte
InitLine ==
  /\ Opened
  /\ poolsize = 1
  /\ password = FALSE
  /\ NotSending
  /\ rawLine \in RawLines
  /\ follow \in Seqs(FollowBytes, MaxFollow)
  /\ parsed = NoResponse

\* receiveResponse reads the line and, for a bulk, the bytes behind it.
receiveLine ==
  /\ parsed = NoResponse
  /\ parsed' = receiveResponseRaw(rawLine, follow)
  /\ UNCHANGED <<rawLine, follow, managerVars, sendVars, clientState>>

NextLine == receiveLine

SpecLine == InitLine /\ [][NextLine]_vars

\* ---------------------------------------------- more threads than capacity
\* TestConcurrency with every pool capacity up to MaxPool, the capacities
\* below NThreads making threads wait: every thread asks for a Connection,
\* runs commands on it, returns it and asks again; the server is reachable
\* and no deadline of pullRetry passes.
InitLive == Init

Ask(t) == Connection(t) /\ lastOp'.err \in {"none", "limit"}
Retry(t) == pullRetry(t) /\ lastOp'.err \in {"none", "limit"}
Greet(t) == newConnection(t) /\ lastOp'.err = "none"
Ping(t) == Do(t, SelectReplies)
Release(t) == pc[t] = "conn" /\ Return(t)

NextLive ==
  \E t \in Threads :
    \/ Ask(t)
    \/ Retry(t)
    \/ Greet(t)
    \/ Ping(t)
    \/ Release(t)

\* Every thread keeps running. db.mu is a sync.Mutex: a thread that waits
\* for it while others take and release it is handed the lock (starvation
\* mode), hence the strong fairness of Ask.
SpecLive ==
  /\ InitLive
  /\ [][NextLive]_vars
  /\ \A t \in Threads :
       /\ SF_vars(Ask(t))
       /\ WF_vars(Retry(t))
       /\ WF_vars(Greet(t))
       /\ WF_vars(Release(t))

\* C7: with more threads than capacity, every thread eventually holds a
\* Connection, and a thread that waits in pullRetry is always served.
C7_EveryThreadEventuallyConnected ==
  \A t \in Threads :
    /\ <>(pc[t] = "conn")
    /\ (pc[t] = "pullRetry") ~> (pc[t] = "conn")

C7_Witness ==
  /\ poolsize < NThreads
  /\ \E t, u \in Threads :
       /\ pc[t] = "returned"
       /\ pc[u] = "conn"
       /\ connResp[u] \in 1..(nextId - 1)
       /\ nextId = poolsize + 1

\* --------------------------------------------- the pool, statement by statement
\* The pool operations as the statements of pool.go, each thread calling
\* pull, pullForced, push, kill and close.  connResp[t] is the session the
\* thread got from its last pull and has not given back.  A call keeps the
\* public operation it is made by, the key pull's range will yield and the
\* outcome of the dial, and exp, what the operation gives when it runs alone
\* on the pool as it is when the call takes the mutex.
Exp(r, ac, av, iu, cl, nid) ==
  [r |-> r, active |-> ac, available |-> av, inUse |-> iu, closed |-> cl,
   nextId |-> nid]

Call(by, op, at, r, pick, dial, exp) ==
  [by |-> by, op |-> op, at |-> at, r |-> r, pick |-> pick, dial |-> dial, exp |-> exp]

\* The variables the pool's statements leave alone.
clientVars == <<aside, config, wire, pc, pplResp, counter, pending, forced,
                broken, panicked, codecVars>>

\* The statements at which the pool performs network I/O: net.DialTimeout in
\* newResp, conn.Close in resp.close.
NetworkIO == {"dial", "closeConn", "closeAll"}

\* p.mu.Lock() as it would be if it did not wait for the holder.
Lock_notExclusive(t) ==
  /\ mu' = t

\* p.mu.Lock()
Lock(t) ==
  /\ mu = NIL
  /\ mu' = t

\* The deferred p.mu.Unlock(): the operation returns.
unlock(t) ==
  /\ call[t].at = "unlock"
  /\ mu' = NIL
  /\ call' = [call EXCEPT ![t] = NoCall]
  /\ connResp' = [connResp EXCEPT ![t] =
                    IF call[t].op \in {"pull", "pullForced"} THEN call[t].r
                    ELSE IF call[t].op \in {"push", "kill"} THEN NIL
                    ELSE @]
  /\ dbmu' = IF dbmu = t THEN NIL ELSE dbmu
  /\ lastOp' = Op(call[t].op, t, "none", call[t].r, <<>>)
  /\ UNCHANGED <<active, available, inUse, nextId, closed, clientVars>>

\* One statement of thread t that moves it to at, having r in hand.
Goto(t, at, r) == call' = [call EXCEPT ![t].at = at, ![t].r = r]

\* The public operations and the pool method each of them calls:
\* newConnection polls pull, newPipeline and ensureProtocol (in Pipeline.Do
\* and in Collect) call pullForced, Return and Collect push, Collect kills,
\* Database.Close closes.
Entries ==
  { <<"Connection", "pull">>, <<"Pipeline", "pullForced">>,
    <<"PipelineDo", "pullForced">>, <<"Collect", "pullForced">>,
    <<"Return", "push">>, <<"Collect", "push">>, <<"Collect", "kill">>,
    <<"Close", "close">> }

\* The operations that hold db.mu as they would be if Return took it too.
UnderDatabaseLock_withReturn == {"Connection", "Pipeline", "Close", "Return"}

\* The operations of Database, which hold db.mu until they return.
UnderDatabaseLock == {"Connection", "Pipeline", "Close"}

\* A thread enters the public operation e[1], takes db.mu if the operation
\* is one of Database, and comes to the p.mu.Lock() of the pool method e[2].
BeginAs(t, e) ==
  /\ call[t].at = "idle"
  /\ e[2] \in {"pull", "pullForced"} => connResp[t] = NIL
  /\ e[2] \in {"push", "kill"} => connResp[t] # NIL
  /\ IF e[1] \in UnderDatabaseLock
       THEN dbmu = NIL /\ dbmu' = t
       ELSE UNCHANGED dbmu
  /\ call' = [call EXCEPT ![t] =
                Call(e[1], e[2], "lock", connResp[t], NIL, TRUE, NoCall.exp)]
  /\ UNCHANGED <<mu, active, available, inUse, nextId, closed, connResp, lastOp, clientVars>>

\* A thread enters a public operation.
Begin(t) == \E e \in Entries : BeginAs(t, e)

\* pullRetry polls again: the pull made for Connection() gave no session, the
\* deadline has not passed; p.mu is released, db.mu is kept.
pollAgain(t) ==
  /\ call[t].at = "unlock"
  /\ call[t].by = "Connection"
  /\ call[t].r = NIL
  /\ mu' = NIL
  /\ call' = [call EXCEPT ![t] = Call("Connection", "pull", "lock", NIL, NIL, TRUE, NoCall.exp)]
  /\ lastOp' = Op("pull", t, "none", NIL, <<>>)
  /\ UNCHANGED <<active, available, inUse, nextId, closed, connResp, dbmu, clientVars>>

\* pool.pull begins.
lockPull(t) ==
  /\ call[t].at = "lock"
  /\ call[t].op = "pull"
  /\ Lock(t)
  /\ \E pick \in Picks, dial \in PullDials :
       LET res == pull(pick, dial)
       IN /\ Creates(res) => nextId <= MaxSessions
          /\ call' = [call EXCEPT ![t] =
                        Call(call[t].by, "pull", "active", NIL, pick, dial,
                             Exp(res.r, active, res.available, res.inUse, closed,
                                 res.nextId))]
  /\ UNCHANGED <<active, available, inUse, nextId, closed, connResp, lastOp, dbmu, clientVars>>

\* pool.pullForced begins.
lockPullForced(t) ==
  /\ call[t].at = "lock"
  /\ call[t].op = "pullForced"
  /\ Lock(t)
  /\ \E dial \in ForcedDials(NIL) :
       LET res == pullForced(dial)
       IN /\ Creates(res) => nextId <= MaxSessions
          /\ call' = [call EXCEPT ![t] =
                        Call(call[t].by, "pullForced", "active", NIL, NIL, dial,
                             Exp(res.r, active, res.available, res.inUse, closed,
                                 res.nextId))]
  /\ UNCHANGED <<active, available, inUse, nextId, closed, connResp, lastOp, dbmu, clientVars>>

\* pool.push begins.
lockPush(t) ==
  /\ call[t].at = "lock"
  /\ call[t].op = "push"
  /\ Lock(t)
  /\ LET res == push(connResp[t])
     IN call' = [call EXCEPT ![t] =
                   Call(call[t].by, "push", "delete", connResp[t], NIL, TRUE,
                        Exp(connResp[t], active, res.available, res.inUse,
                            res.closed, nextId))]
  /\ UNCHANGED <<active, available, inUse, nextId, closed, connResp, lastOp, dbmu, clientVars>>

\* pool.kill begins.
lockKill(t) ==
  /\ call[t].at = "lock"
  /\ call[t].op = "kill"
  /\ Lock(t)
  /\ LET res == kill(connResp[t])
     IN call' = [call EXCEPT ![t] =
                   Call(call[t].by, "kill", "delete", connResp[t], NIL, TRUE,
                        Exp(connResp[t], active, res.available, res.inUse,
                            res.closed, nextId))]
  /\ UNCHANGED <<active, available, inUse, nextId, closed, connResp, lastOp, dbmu, clientVars>>

\* pool.close begins.
lockClose(t) ==
  /\ call[t].at = "lock"
  /\ call[t].op = "close"
  /\ Lock(t)
  /\ call' = [call EXCEPT ![t] =
                Call(call[t].by, "close", "active", NIL, NIL, TRUE,
                     IF active
                       THEN Exp(NIL, FALSE, close.available, close.inUse,
                                close.closed, nextId)
                       ELSE Exp(NIL, active, available, inUse, closed, nextId))]
  /\ UNCHANGED <<active, available, inUse, nextId, closed, connResp, lastOp, dbmu, clientVars>>

\* if !p.active { return ... } in pull, pullForced and close.
checkActive(t) ==
  /\ call[t].at = "active"
  /\ IF ~active THEN Goto(t, "unlock", NIL)
     ELSE IF call[t].op = "pull" THEN Goto(t, "switch", NIL)
     ELSE IF call[t].op = "pullForced" THEN Goto(t, "dial", NIL)
     ELSE Goto(t, "deactivate", NIL)
  /\ UNCHANGED <<mu, active, available, inUse, nextId, closed, connResp, lastOp, dbmu, clientVars>>

\* The switch of pull: lend an available session, go and dial, or fail.
switch(t) ==
  /\ call[t].at = "switch"
  /\ IF Cardinality(available) > 0
       THEN LET r == IF call[t].pick \in available THEN call[t].pick
                     ELSE CHOOSE x \in available : TRUE
            IN /\ available' = available \ {r}
               /\ inUse' = inUse \cup {r}
               /\ Goto(t, "unlock", r)
       ELSE /\ IF Cardinality(inUse) < poolsize
                 THEN Goto(t, "dial", NIL)
                 ELSE Goto(t, "unlock", NIL)
            /\ UNCHANGED <<available, inUse>>
  /\ UNCHANGED <<mu, active, nextId, closed, connResp, lastOp, dbmu, clientVars>>

\* newResp in pull and pullForced: the server is dialed.
dial(t) ==
  /\ call[t].at = "dial"
  /\ IF call[t].dial
       THEN /\ nextId <= MaxSessions
            /\ nextId' = nextId + 1
            /\ Goto(t, "insert", nextId)
       ELSE /\ Goto(t, "unlock", NIL)
            /\ UNCHANGED nextId
  /\ UNCHANGED <<mu, active, available, inUse, closed, connResp, lastOp, dbmu, clientVars>>

\* p.inUse[resp] = resp
insert(t) ==
  /\ call[t].at = "insert"
  /\ inUse' = inUse \cup {call[t].r}
  /\ Goto(t, "unlock", call[t].r)
  /\ UNCHANGED <<mu, active, available, nextId, closed, connResp, lastOp, dbmu, clientVars>>

\* delete(p.inUse, resp) in push and kill.
delete(t) ==
  /\ call[t].at = "delete"
  /\ inUse' = inUse \ {call[t].r}
  /\ Goto(t, IF call[t].op = "kill" THEN "closeConn" ELSE "full", call[t].r)
  /\ UNCHANGED <<mu, active, available, nextId, closed, connResp, lastOp, dbmu, clientVars>>

\* The test of push: the pool is inactive or available is full.
full(t) ==
  /\ call[t].at = "full"
  /\ Goto(t, IF ~active \/ Cardinality(available) >= poolsize THEN "closeConn" ELSE "file",
          call[t].r)
  /\ UNCHANGED <<mu, active, available, inUse, nextId, closed, connResp, lastOp, dbmu, clientVars>>

\* p.available[resp] = resp
file(t) ==
  /\ call[t].at = "file"
  /\ available' = available \cup {call[t].r}
  /\ Goto(t, "unlock", call[t].r)
  /\ UNCHANGED <<mu, active, inUse, nextId, closed, connResp, lastOp, dbmu, clientVars>>

\* resp.close() in push and kill: the connection is closed.
closeConn(t) ==
  /\ call[t].at = "closeConn"
  /\ closed' = closed \cup {call[t].r}
  /\ Goto(t, "unlock", call[t].r)
  /\ UNCHANGED <<mu, active, available, inUse, nextId, connResp, lastOp, dbmu, clientVars>>

\* p.active = false
deactivate(t) ==
  /\ call[t].at = "deactivate"
  /\ active' = FALSE
  /\ Goto(t, "closeAll", NIL)
  /\ UNCHANGED <<mu, available, inUse, nextId, closed, connResp, lastOp, dbmu, clientVars>>

\* The loop of close: every available connection is closed.
closeAll(t) ==
  /\ call[t].at = "closeAll"
  /\ closed' = closed \cup available
  /\ Goto(t, "clear", NIL)
  /\ UNCHANGED <<mu, active, available, inUse, nextId, connResp, lastOp, dbmu, clientVars>>

\* p.available = nil
clear(t) ==
  /\ call[t].at = "clear"
  /\ available' = {}
  /\ Goto(t, "unlock", NIL)
  /\ UNCHANGED <<mu, active, inUse, nextId, closed, connResp, lastOp, dbmu, clientVars>>

NextLock ==
  \E t \in Threads :
    \/ Begin(t)
    \/ lockPull(t)
    \/ lockPullForced(t)
    \/ lockPush(t)
    \/ lockKill(t)
    \/ lockClose(t)
    \/ checkActive(t)
    \/ switch(t)
    \/ dial(t)
    \/ insert(t)
    \/ delete(t)
    \/ full(t)
    \/ file(t)
    \/ closeConn(t)
    \/ deactivate(t)
    \/ closeAll(t)
    \/ clear(t)
    \/ pollAgain(t)
    \/ unlock(t)

SpecLock == Init /\ [][NextLock]_vars

\* The statements of thread t once it is inside a public operation.
Proceed(t) ==
  \/ lockPull(t)
  \/ lockPullForced(t)
  \/ lockPush(t)
  \/ lockKill(t)
  \/ lockClose(t)
  \/ checkActive(t)
  \/ switch(t)
  \/ dial(t)
  \/ insert(t)
  \/ delete(t)
  \/ full(t)
  \/ file(t)
  \/ closeConn(t)
  \/ deactivate(t)
  \/ closeAll(t)
  \/ clear(t)
  \/ pollAgain(t)
  \/ unlock(t)

\* ------------------------------------------------------------- the claims
Tracked == available \cup inUse
Created == 1 .. (nextId - 1)
\* The borrowers (Connections and Pipelines) that reference session s.
BorrowersIn(s, conns, ppls) ==
  { <<"Connection", t>> : t \in { u \in Threads : conns[u] = s } }
    \cup { <<"Pipeline", t>> : t \in { u \in Threads : ppls[u] = s } }
Borrowers(s) == BorrowersIn(s, connResp, pplResp)

\* C1 (as stated): while the pool is active, the sessions in available plus
\* those in in-use are at most the capacity.
C1_TrackedWithinCapacity ==
  active => Cardinality(available) + Cardinality(inUse) <= poolsize

\* C1 (amended): while the pool is active, the tracked sessions that pull
\* created are at most the capacity; those pullForced created for Pipelines
\* come on top of it.
C1_PulledWithinCapacity ==
  active => Cardinality((Tracked \ forced) \ {NIL}) <= poolsize

C1_Witness ==
  /\ active
  /\ forced \cap inUse # {}
  /\ Cardinality((Tracked \ forced) \ {NIL}) = poolsize
  /\ Cardinality(Tracked) > poolsize

\* C2: every session the pool created is in exactly one of available and
\* in-use, or it is closed and in neither.
C2_OneSetOrClosed ==
  \A s \in Created :
    \/ s \in closed /\ s \notin available /\ s \notin inUse
    \/ s \notin closed /\ ((s \in available) # (s \in inUse))

C2_Witness ==
  \E a, b, c \in Created :
    /\ a \in available /\ a \notin inUse
    /\ b \in inUse /\ b \notin available
    /\ c \in closed /\ c \notin Tracked

\* C3: a session is referenced by at most one Connection or Pipeline, and by
\* none while it is in available.
C3_ExclusiveOwnership ==
  \A s \in Created :
    /\ Cardinality(Borrowers(s)) <= 1
    /\ s \in available => Borrowers(s) = {}

C3_Witness ==
  /\ \E t \in Threads : pc[t] = "returned"
  /\ \E s \in available \cap Created : Borrowers(s) = {}
  /\ \E t \in Threads : /\ pc[t] = "ppl"
                         /\ pplResp[t] \in inUse
                         /\ Borrowers(pplResp[t]) = { <<"Pipeline", t>> }

\* C4: a session on which a fatal condition occurred is never returned by a
\* later pull.
C4_FatalSessionNotPulled ==
  lastOp.op = "pull" /\ lastOp.err = "none" => lastOp.r \notin broken

WellFormed(rep) == rep # TimeoutReply

\* C5: a successful Collect returns one result container per counted command,
\* the i-th being the reply to the i-th command.
C5_CollectInSubmissionOrder ==
  (/\ lastOp.op = "Collect"
   /\ lastOp.err = "none"
   /\ \A i \in 1 .. Len(lastOp.out.pending) : WellFormed(lastOp.out.pending[i]))
  => /\ Len(lastOp.out.results) = Len(lastOp.out.pending)
     /\ \A i \in 1 .. Len(lastOp.out.pending) :
          lastOp.out.results[i] = Expected(lastOp.out.pending[i])

\* C6: with at least as many sessions of capacity as threads, no Pipeline
\* session open and no nil entry in the pool, a pull made for Connection()
\* fails only if the server cannot be dialed, and it lends a session no other
\* Connection or Pipeline holds.
C6_EnoughCapacityNoPoolFailure ==
  [][ (/\ NThreads <= poolsize
       /\ active
       /\ forced = {}
       /\ NIL \notin Tracked
       /\ lastOp'.op = "pull")
      => /\ lastOp'.err \in {"none", "dial"}
         /\ lastOp'.err = "none" =>
              /\ lastOp'.r \in Created'
              /\ pc'[lastOp'.t] = "connHandshake"
              /\ BorrowersIn(lastOp'.r, connResp', pplResp') = { <<"Connection", lastOp'.t>> } ]_vars

C6_Witness ==
  /\ NThreads <= poolsize
  /\ active /\ forced = {} /\ NIL \notin Tracked
  /\ \A t \in Threads : pc[t] = "conn"
  /\ \A t, u \in Threads : t # u => connResp[t] # connResp[u]

\* C8: with nothing available and capacity sessions lent, pull fails with
\* the limit failure and changes nothing; with a session available, pull
\* lends one of the available sessions and creates none.
C8_LimitThenReuse ==
  [][ (active /\ lastOp'.op = "pull")
      => /\ (available = {} /\ Cardinality(inUse) >= poolsize)
              => /\ lastOp'.err = "limit"
                 /\ UNCHANGED <<available, inUse, nextId>>
         /\ available # {}
              => /\ lastOp'.err = "none"
                 /\ lastOp'.r \in available
                 /\ NIL \notin available => lastOp'.r \in Created
                 /\ lastOp'.r \in inUse' /\ lastOp'.r \notin available'
                 /\ nextId' = nextId ]_vars

C8_Witness ==
  /\ poolsize = 1 /\ nextId = 2
  /\ lastOp.op = "pull" /\ lastOp.err = "none" /\ lastOp.r = 1
  /\ \E t \in Threads : t # lastOp.t /\ pc[t] = "returned"
  /\ inUse = {1} /\ available = {}

\* C9: a Do that succeeds returns the reply to its own command and leaves
\* none of its bytes unread.
C9_DoReturnsOwnReply ==
  (lastOp.op = "Do" /\ lastOp.err = "none" /\ WellFormed(lastOp.out.reply))
  => /\ lastOp.out.result = Expected(lastOp.out.reply)
     /\ wire[lastOp.r] = <<>>

\* C10: receiveResultSet yields, for every well-formed reply, the container
\* with the reply's tree shape and leaf values, and reads all its lines.
C10_DecodedEqualsReply ==
  decoded # Undecoded
  => /\ decoded.err = "none"
     /\ decoded.result = Expected(reply)
     /\ decoded.rest = <<>>

\* C11: Connection() returns a Connection only after authenticate (when a
\* password is configured) and then select each got an OK on the pulled
\* session; a failed handshake kills that session, returns no Connection and
\* takes out of in-use exactly the session the pull had put there.
C11_HandshakeOrKill ==
  [][ /\ (lastOp'.op = "pull" /\ lastOp'.r # NIL)
         => /\ lastOp'.r \notin inUse
            /\ inUse' = inUse \cup {lastOp'.r}
      /\ (lastOp'.op = "Connection" /\ lastOp'.err = "none")
         => /\ lastOp'.out = (IF password THEN <<"auth", "select">> ELSE <<"select">>)
            /\ pc'[lastOp'.t] = "conn"
            /\ lastOp'.r = connResp[lastOp'.t]
            /\ connResp'[lastOp'.t] = lastOp'.r
            /\ lastOp'.r \in inUse' \ closed'
      /\ (lastOp'.op = "Connection" /\ lastOp'.err \notin {"none", "deadline"})
         => LET s == connResp[lastOp'.t]
            IN /\ s \in inUse
               /\ inUse' = inUse \ {s}
               /\ Cardinality(inUse') = Cardinality(inUse) - 1
               /\ s \in closed'
               /\ available' = available
               /\ s \notin available'
               /\ lastOp'.r = NIL
               /\ connResp'[lastOp'.t] = NIL
               /\ pc'[lastOp'.t] = "idle" ]_vars

C11_Witness ==
  /\ password
  /\ lastOp.op = "Connection"
  /\ lastOp.err = "select"
  /\ closed # {}
  /\ \E t \in Threads : pc[t] = "conn" /\ connResp[t] \in inUse \ closed

\* C12: once the pool is closed it stays closed, no pull or pullForced gives
\* a session or creates one, available stays empty, and the close itself
\* closes every session that was available.
C12_ClosedPoolLendsNothing ==
  [][ /\ (active /\ ~active')
         => /\ available' = {}
            /\ available \subseteq closed'
      /\ ~active
         => /\ ~active'
            /\ available' = {}
            /\ nextId' = nextId
            /\ inUse' \subseteq inUse
            /\ lastOp'.op \in {"pull", "pullForced"}
                 => lastOp'.r = NIL /\ lastOp'.err = "closed"
            /\ lastOp'.op \in {"Connection", "Pipeline"} => lastOp'.r = NIL
            /\ (lastOp'.op = "PipelineDo" /\ pplResp[lastOp'.t] = NIL)
                 => lastOp'.r = NIL /\ lastOp'.err \in {"closed", "misuse"} ]_vars

C12_Witness ==
  /\ ~active
  /\ lastOp.op = "pull"
  /\ lastOp.err = "closed"
  /\ closed # {}
  /\ inUse # {}
  /\ available = {}

\* C13: a session in use when the pool is closed stays open and with its
\* holder; once no Connection and no Pipeline holds a session any more,
\* every created session is closed and both sets are empty.
C13_NoLeakAfterClose ==
  ~active
  => /\ \A t \in Threads :
          /\ connResp[t] # NIL => connResp[t] \in inUse \ closed
          /\ pplResp[t] # NIL => pplResp[t] \in inUse \ closed
     /\ (\A t \in Threads : connResp[t] = NIL /\ pplResp[t] = NIL)
          => /\ inUse = {}
             /\ available = {}
             /\ Created \subseteq closed

\* C14: available never holds more than capacity entries; a push into an
\* inactive pool or into a full available set closes the session, any other
\* push retains it, whether pull or pullForced created the session.
C14_AvailableWithinCapacity ==
  [][ /\ Cardinality(available') <= poolsize
      /\ (lastOp'.op \in {"Return", "Collect"} /\ lastOp'.err = "none" /\ lastOp'.r # NIL)
         => IF ~active \/ Cardinality(available) >= poolsize
              THEN /\ lastOp'.r \in closed'
                   /\ lastOp'.r \notin available' \cup inUse'
                   /\ available' = available
              ELSE /\ available' = available \cup {lastOp'.r}
                   /\ lastOp'.r \notin closed' \cup inUse' ]_vars

C14_Witness ==
  /\ active
  /\ lastOp.op = "Collect"
  /\ lastOp.err = "none"
  /\ lastOp.r \in closed
  /\ Cardinality(available) = poolsize
  /\ NIL \notin available

\* The command names of the model that contain "subscribe" in some case.
SubscriptionFamily == { Subscribe, PSubscribe }

\* C16: Connection.Do and Pipeline.Do with a command of the subscription
\* family fail with the misuse failure and change nothing: no byte on any
\* session, no pool set, no session of a Connection or Pipeline, no counter.
C16_SubscriptionRefused ==
  [][ (/\ lastOp'.op \in {"Do", "PipelineDo"}
       /\ lastOp'.err # "panic"
       /\ lastOp'.out.cmd \in SubscriptionFamily)
      => /\ lastOp'.err = "misuse"
         /\ UNCHANGED <<wire, active, available, inUse, nextId, closed, forced,
                        broken, connResp, pplResp, counter, pending, pc, dbmu>> ]_vars

C16_Witness ==
  /\ lastOp.op = "PipelineDo"
  /\ lastOp.err = "misuse"
  /\ lastOp.out.cmd = PSubscribe
  /\ pplResp[lastOp.t] # NIL
  /\ counter[lastOp.t] > 0

C17_CollectFailureKills ==
  [][ (lastOp'.op = "Collect" /\ lastOp'.err \in {"io", "timeout", "invalid"})
      => LET s == pplResp[lastOp'.t]
         IN /\ s # NIL
            /\ s \in inUse
            /\ s \in closed'
            /\ s \notin available' \cup inUse'
            /\ available' = available
            /\ pplResp'[lastOp'.t] = NIL
            /\ lastOp'.out = <<>> ]_vars

C17_Witness ==
  /\ lastOp.op = "Collect"
  /\ lastOp.err = "timeout"
  /\ lastOp.r \in closed
  /\ pplResp[lastOp.t] = NIL
  /\ Len(pending[lastOp.t]) = 2
  /\ pending[lastOp.t][1] = OKReply

\* C18: pullRetry hands out the session of the first poll of pull that
\* yields one; a poll that yields none leaves the pool's sets as they were
\* and pullRetry goes on; when the deadline passes it returns the deadline
\* failure and no session, the sets being as they were.
C18_PullRetrySessionOrDeadline ==
  [][ /\ (lastOp'.op = "pull" /\ lastOp'.r # NIL)
         => /\ pc'[lastOp'.t] = "connHandshake"
            /\ connResp'[lastOp'.t] = lastOp'.r
      /\ (lastOp'.op = "pull" /\ lastOp'.r = NIL)
         => /\ pc'[lastOp'.t] = "pullRetry"
            /\ UNCHANGED <<active, available, inUse>>
      /\ (lastOp'.op = "Connection" /\ lastOp'.err = "deadline")
         => /\ pc[lastOp'.t] = "pullRetry"
            /\ pc'[lastOp'.t] = "idle"
            /\ lastOp'.r = NIL
            /\ UNCHANGED <<active, available, inUse>> ]_vars

\* C19: a thread is inside a pool operation only while it holds pool.mu, the
\* pool's sets and flag change only by a statement of the holder, and when
\* an operation returns, the pool and the result are what the operation
\* gives when it runs alone on the pool as it was when it took the mutex.
C19_PoolOperationsUnderMutex ==
  [][ /\ \A t \in Threads : call'[t].at \notin {"idle", "lock"} => mu' = t
      /\ <<active, available, inUse>>' # <<active, available, inUse>>
         => /\ mu # NIL
            /\ mu' = mu
            /\ call'[mu] # call[mu]
            /\ \A u \in Threads \ {mu} : call'[u] = call[u]
      /\ \A t \in Threads :
           (call[t].at = "unlock" /\ call'[t].at = "idle")
           => call[t].exp = Exp(call[t].r, active, available, inUse, closed, nextId) ]_vars

C19_Witness ==
  \E t, u \in Threads :
    /\ t # u
    /\ mu = t
    /\ call[t].op = "push"
    /\ call[t].at = "unlock"
    /\ call[t].r \in available
    /\ call[u].at = "lock"
    /\ connResp[u] \in inUse \ {NIL}

\* C20: no thread performs network I/O (dialing, closing a connection)
\* while it holds pool.mu.
C20_NoNetworkIOUnderMutex ==
  \A t \in Threads : call[t].at \in NetworkIO => mu # t

\* C21: a thread inside Pipeline.Do or Pipeline.Collect that has come to the
\* Lock of a pool method never finds the mutex held by another thread that
\* is performing network I/O.
C21_BlocksOnlyOnOwnIO ==
  \A t, u \in Threads :
    ( /\ t # u
      /\ call[t].at = "lock"
      /\ call[t].by \in {"PipelineDo", "Collect"}
      /\ mu = u )
    => call[u].at \notin NetworkIO

\* The sessions lent to Connections: those in use that no Pipeline holds.
LentToConnections == inUse \ ({ pplResp[t] : t \in Threads } \cup {NIL})

\* C22: a pull made for Connection() fails with the limit failure only when
\* capacity sessions are lent to Connections; the sessions held by Pipelines
\* do not count.
C22_PipelinesOutsideCapacity ==
  [][ (/\ lastOp'.op = "pull"
       /\ lastOp'.err = "limit"
       /\ NIL \notin inUse)
      => Cardinality(LentToConnections) >= poolsize ]_vars

\* C23: an option with a negative timeout, index or pool size makes Open
\* fail, and a failed Open has created no pool; a zero timeout or pool size
\* is replaced by the default and not rejected; a Database that Open returns
\* has a positive timeout and pool size and an index that is not negative.
C23_OpenValidatesOptions ==
  [][ /\ (opened = "opening" /\ options # <<>>)
         => LET o == Head(options)
            IN /\ o.n < 0 => opened' = "failed"
               /\ o.n >= 0 => opened' = "opening"
               /\ (o.n = 0 /\ o.kind \in {"TCPConnection", "UnixConnection"})
                    => timeout' = DefaultTimeout
               /\ (o.n = 0 /\ o.kind = "PoolSize") => poolsize' = DefaultPoolSize
      /\ opened' = "failed" => ~active' /\ Tracked' = {}
      /\ opened = "failed" => opened' = "failed"
      /\ opened' = "open" => timeout' > 0 /\ index' >= 0 /\ poolsize' > 0 ]_vars

C23_Witness ==
  /\ opened = "failed"
  /\ ~active
  /\ Head(options).n < 0
  /\ Head(options).kind = "Index"
  /\ poolsize = DefaultPoolSize
  /\ timeout = DefaultTimeout
  /\ network = "tcp"

\* C24: on a closed pool, Connection(), Pipeline() and Close() return the
\* pool-closed failure and leave the pool as it is.
C24_ClosedFailsAsClosed ==
  [][ (/\ ~active
       /\ \/ lastOp'.op \in {"Connection", "Close"}
          \/ lastOp'.op = "pullForced" /\ pc[lastOp'.t] # "ppl")
      => /\ lastOp'.err = "closed"
         /\ UNCHANGED poolVars ]_vars

\* C25: when the poll of pull that Connection() made last could not create
\* a session because the dial failed, the failure Connection() returns is
\* that dial failure.
C25_FailureDescribesFailedStep ==
  [][ (/\ lastOp.op = "pull"
       /\ lastOp.err = "dial"
       /\ lastOp'.op = "Connection"
       /\ lastOp'.t = lastOp.t)
      => lastOp'.err = "dial" ]_vars

\* C26: when receiveResultSet reads the timeout marker, as the first line of
\* a reply or inside an array, it returns the timeout failure and no result
\* container, having read nothing behind the marker; when the connection
\* fails instead, the failure it returns is the I/O failure, never the
\* timeout one.
C26_TimeoutMarkerIsDistinctFailure ==
  lastOp.op = "disturbed"
  => /\ (lastOp.err = "timeout" /\ lastOp.out.len - Len(decoded.rest) >= lastOp.out.at)
          => /\ decoded.err = "timeout"
             /\ decoded.result = NoResult
             /\ lastOp.out.len - Len(decoded.rest) = lastOp.out.at
     /\ lastOp.err = "io"
          => /\ decoded.err \in {"none", "io"}
             /\ decoded.err = "io" => decoded.result = NoResult /\ decoded.rest = <<>>
     /\ decoded.err = "timeout" => lastOp.err = "timeout"

C26_Witness ==
  /\ lastOp.op = "disturbed"
  /\ lastOp.err = "timeout"
  /\ reply.k = "array"
  /\ Len(reply.items) > 1
  /\ reply.items[2].k = "array"
  /\ lastOp.out.at = 4
  /\ decoded.err = "timeout"
  /\ decoded.result = NoResult

\* The newest version among v and those of the list.
Newest(v, list) ==
  CHOOSE m \in {v} \cup { list[i] : i \in DOMAIN list } :
    \A x \in {v} \cup { list[i] : i \in DOMAIN list } : Compare(x, m) # "Newer"

\* One step of Manager.Init does what its documentation says: a missing
\* database is created with the stored version 0.0.0; the steps are taken in
\* order; an action is performed, and a version stored, only for the step at
\* hand and only if its version is newer than the stored one; the stored
\* version never gets older; and when Init succeeds it is the newest among
\* the version stored before the steps and the versions of the steps.
InitAsDocumented ==
  /\ (~dbExists /\ mpc' = "steps") => dbExists' /\ versionDoc' /\ stored' = Zero
  /\ (mpc = "steps" /\ todo' # todo) => todo' = Tail(todo)
  /\ applied' # applied
       => /\ mpc = "steps" /\ todo # <<>>
          /\ Compare(Head(todo), stored) = "Newer"
          /\ applied' = Append(applied, Head(todo))
  /\ (mpc = "steps" /\ stored' # stored)
       => /\ applied' # applied
          /\ stored' = Head(todo)
  /\ Compare(stored', stored) # "Older"
  /\ mpc' = "done" => stored' = Newest(start', steps')

\* C27 as stated: Manager.Init is as documented, and no step is applied a
\* second time, in whatever sequence of Init calls.
C27_NoStepAppliedTwice ==
  [][ /\ InitAsDocumented
      /\ \A i, j \in DOMAIN applied' : i < j => applied'[i] # applied'[j] ]_vars

\* C27, amended: Manager.Init is as documented, and no step whose version
\* was stored is applied a second time, in whatever sequence of Init calls.
C27_NoStoredStepAppliedTwice ==
  [][ /\ InitAsDocumented
      /\ applied' # applied => Head(todo) \notin everStored ]_vars

C27_Witness ==
  /\ inits = 2
  /\ mpc = "done"
  /\ Len(steps) = 2
  /\ Len(applied) = 2
  /\ applied[1] \in everStored
  /\ applied[1] = steps[1]
  /\ applied[2] = steps[2]
  /\ start = applied[1]
  /\ stored = applied[2]

\* The line receiveResultSet reads next is an array header (not the timeout
\* marker).
AtHeader ==
  /\ lastOp.op = "decoding"
  /\ unread # <<>>
  /\ Head(unread).b = "*"
  /\ Head(unread).n >= 0

\* C28: an array header read while the current container has a declared
\* length and has not received all its elements (the root that has received
\* none included) makes a child container whose parent is the current one,
\* appends it as one element of the current one and moves the cursor to it
\* (or, when the child is complete at once, on to the first container above
\* that is not); after every turn the cursor is on a container that is not
\* complete, and decoding returns exactly when the cursor has left the root.
C28_HeaderMakesChild ==
  [][ /\ (AtHeader /\ cursor \in declared /\ ~allReceived(sets[cursor]))
         => LET next == Len(sets) + 1
            IN /\ Len(sets') = next
               /\ sets'[next].parent = cursor
               /\ sets'[next].length = Head(unread).n
               /\ sets'[cursor].items = Append(sets[cursor].items, ChildItem(next))
               /\ cursor' = nextResultSet(sets', next)
      /\ (lastOp.op = "decoding" /\ unread # <<>>)
         => /\ cursor' # 0 => ~allReceived(sets'[cursor'])
            /\ cursor' = 0 <=> decoded' # Undecoded ]_vars

TooShort(l) == Len(l) < 3
UnknownType(l) == l[1] \notin {"+", "-", ":", "$", "*"}
BadLength(l) ==
  /\ ~TooShort(l)
  /\ l[1] \in {"$", "*"}
  /\ ~Atoi(SubSeq(l, 2, Len(l) - 2)).ok
BulkBelowNull(l) ==
  /\ ~TooShort(l)
  /\ l[1] = "$"
  /\ Atoi(SubSeq(l, 2, Len(l) - 2)).ok
  /\ Atoi(SubSeq(l, 2, Len(l) - 2)).n < -1
Malformed(l) ==
  Ended(l) /\ (TooShort(l) \/ UnknownType(l) \/ BadLength(l) \/ BulkBelowNull(l))

\* C30: every malformed reply line (an unrecognized leading byte, a length
\* after '$' or '*' that is no number, a line shorter than type byte plus
\* terminator, a bulk length below -1) is answered with a failure value,
\* never with an out-of-range access or a result.
C30_MalformedLineIsFailure ==
  (parsed # NoResponse /\ Malformed(rawLine))
  => (~parsed.panic /\ parsed.kind = "receivingError")

\* C31: after a Collect, successful or failed, the Pipeline references no
\* session, and the next batch starts with no outstanding reply: a Collect
\* made while the Pipeline has no session returns an empty list and reads
\* nothing, a Collect returns as many result sets as commands were counted
\* since the session was obtained, and the first Do after a Collect counts 1.
C31_CollectEmptiesPipeline ==
  [][ /\ lastOp'.op = "Collect"
         => /\ pplResp'[lastOp'.t] = NIL
            /\ (lastOp'.err = "none" /\ pplResp[lastOp'.t] = NIL)
               => /\ lastOp'.out.results = <<>>
                  /\ wire' = wire
            /\ (lastOp'.err = "none" /\ pplResp[lastOp'.t] # NIL)
               => Len(lastOp'.out.results) = counter[lastOp'.t]
      /\ (lastOp'.op = "PipelineDo" /\ lastOp'.err = "none" /\ pplResp[lastOp'.t] = NIL)
         => counter'[lastOp'.t] = 1 ]_vars

C31_Witness ==
  /\ lastOp.op = "Collect"
  /\ lastOp.err = "none"
  /\ Len(lastOp.out.results) = 2
  /\ counter[lastOp.t] = 2
  /\ pplResp[lastOp.t] = NIL

\* C32: whenever available is not empty, pull lends one of the available
\* sessions and creates none; it creates a session only when available is
\* empty and fewer than capacity sessions are in use, and it marks the new
\* session in use without any handshake: nothing is sent or read, the
\* handshake is left to the caller.
C32_PullLendsOrCreates ==
  [][ lastOp'.op = "pull"
      => /\ (active /\ available # {})
              => /\ lastOp'.err = "none"
                 /\ lastOp'.r # NIL
                 /\ lastOp'.r \in available
                 /\ available' = available \ {lastOp'.r}
                 /\ inUse' = inUse \cup {lastOp'.r}
                 /\ nextId' = nextId
         /\ nextId' # nextId
              => /\ available = {}
                 /\ Cardinality(inUse) < poolsize
                 /\ lastOp'.r = nextId
                 /\ inUse' = inUse \cup {nextId}
                 /\ available' = available
                 /\ wire' = wire
                 /\ pc'[lastOp'.t] = "connHandshake" ]_vars

\* C33: a pull or pullForced that fails (the pool is closed, the limit is
\* reached, or the connection cannot be established) leaves available, inUse
\* and the active flag as they were; pullForced is also the one called by
\* ensureProtocol for Pipeline.Do and Collect.
C33_FailedPullChangesNothing ==
  [][ (\/ lastOp'.op \in {"pull", "pullForced"} /\ lastOp'.err \in {"closed", "limit", "dial"}
       \/ lastOp'.op \in {"PipelineDo", "Collect"} /\ lastOp'.err \in {"closed", "dial"})
      => UNCHANGED <<available, inUse, active>> ]_vars

C33_Witness ==
  /\ lastOp.op = "pullForced"
  /\ lastOp.err = "dial"
  /\ available # {}
  /\ inUse # {}

\* C34: every command a Pipeline sends travels on a session that completed
\* the handshake since the session was obtained, the commands submitted with
\* Do after an earlier Collect included.
C34_PipelineSendsAfterHandshake ==
  [][ (lastOp'.op = "PipelineDo" /\ lastOp'.err \in {"none", "io"})
      => lastOp'.r \in shaken' ]_vars

\* C35: Return on a Connection that was already returned changes nothing in
\* the pool; available and inUse hold only real, open sessions, never the
\* nil entry; and every successful pull returns a real session.
C35_ReturnTwiceChangesNothing ==
  [][ /\ (lastOp'.op = "Return" /\ pc[lastOp'.t] = "returned")
         => /\ UNCHANGED <<active, available, inUse, closed>>
            /\ ~panicked'
      /\ NIL \notin available' \cup inUse'
      /\ (available' \cup inUse') \cap closed' = {}
      /\ (lastOp'.op = "pull" /\ lastOp'.err = "none")
         => lastOp'.r \in Created' ]_vars

\* C36: no interleaving of the public operations deadlocks.  db.mu is taken
\* before p.mu and never while p.mu is held; Return, Pipeline.Do and Collect
\* take p.mu alone; the holder of p.mu always has a next statement, a thread
\* at p.mu.Lock() goes on as soon as p.mu is free; and while a Connection()
\* polls with db.mu held, a thread that holds a session can enter Return.
C36_NoDeadlock ==
  \A t \in Threads :
    /\ mu = t => call[t].at \notin {"idle", "lock"}
    /\ dbmu = t => call[t].by \in {"Connection", "Pipeline", "Close"} /\ call[t].at # "idle"
    /\ call[t].by \in {"Connection", "Pipeline", "Close"} => dbmu = t
    /\ call[t].by \in {"Return", "PipelineDo", "Collect"} => dbmu # t
    /\ call[t].at \notin {"idle", "lock"} => mu = t /\ ENABLED Proceed(t)
    /\ (call[t].at = "lock" /\ mu = NIL) => ENABLED Proceed(t)
    /\ (call[t].at = "idle" /\ connResp[t] # NIL) => ENABLED BeginAs(t, <<"Return", "push">>)

C36_Witness ==
  \E t, u \in Threads :
    /\ call[t].by = "Connection" /\ call[t].at = "lock" /\ dbmu = t
    /\ lastOp = Op("pull", t, "none", NIL, <<>>)
    /\ inUse # {} /\ available = {}
    /\ call[u].at = "idle" /\ connResp[u] # NIL
    /\ mu = NIL

====
